---- MODULE Spec2Model ----
(***************************************************************************)
(* A model of fredbuf, a persistent piece-tree text buffer.                *)
(*                                                                         *)
(* The red-black tree, the piece arithmetic, node_at / buffer_position and *)
(* the insert / remove algorithms are translated from src/fredbuf.cpp.     *)
(* The history layer (undo / redo stacks, history suppression,             *)
(* commit_head, head, snap_to) is declared in src/fredbuf.h and exercised  *)
(* by src/fredbuf-test.cpp; its bodies are modelled from the design text.  *)
(***************************************************************************)
EXTENDS Integers, Sequences, FiniteSets, TLC

(***************************************************************************)
(* Bounds of the model.                                                    *)
(***************************************************************************)
\* size_t arithmetic is modular.  The model keeps the wrap-around but uses a
\* narrower word so that every value stays inside TLC's integers.
SizeMod == 65536
\* Number of public operations applied to one engine.
MaxOps == 2
\* Number of public operations in the history specification.
MaxHistoryOps == 3

MaxUndoOps == 5
\* Largest count a caller passes to remove.
MaxCount == 2
\* Number of public operations in the range-removal specification.
MaxRangeOps == 2
\* Largest count passed to remove in the range-removal specification.
MaxRangeCount == 4
\* Number of roots a caller keeps from head().
MaxHeads == 2
\* Number of nodes of a tree in the tree-only specification.
MaxNodes == 6

\* The bytes of the model's alphabet.
LF == "\n"
CR == "\r"

(***************************************************************************)
(* enum-utils.h: arithmetic on the typed integers.                         *)
(***************************************************************************)
Wrap(x) == x % SizeMod

retract(e, x) == Wrap(e - x)

extend(e, x) == Wrap(e + x)

\* CharOffset::Sentinel
Sentinel == SizeMod - 1

\* BufferIndex::ModBuf
ModBuf == SizeMod - 1

\* 0-based indexing of std::string / std::vector.
At(s, i) == s[i + 1]

(***************************************************************************)
(* CharBuffer and its line starts.                                         *)
(***************************************************************************)
RECURSIVE line_starts_from(_, _)
line_starts_from(buf, i) ==
    IF i >= Len(buf) THEN <<>>
    ELSE IF At(buf, i) = LF
         THEN <<i + 1>> \o line_starts_from(buf, i + 1)
         ELSE line_starts_from(buf, i + 1)

populate_line_starts(buf) == <<0>> \o line_starts_from(buf, 0)

CharBuffer(txt) == [buffer |-> txt, line_starts |-> populate_line_starts(txt)]

\* TreeBuilder::accept for every slice, in order.
RECURSIVE accept_all(_)
accept_all(slices) ==
    IF slices = <<>> THEN <<>>
    ELSE <<CharBuffer(Head(slices))>> \o accept_all(Tail(slices))

buffer_at(B, index) ==
    IF index = ModBuf THEN B.mod_buffer ELSE At(B.orig_buffers, index)

buffer_offset(B, index, cursor) ==
    At(buffer_at(B, index).line_starts, cursor.line) + cursor.column

(***************************************************************************)
(* The persistent red-black tree.                                          *)
(***************************************************************************)
EmptyTree == [nil |-> TRUE]

is_empty(t) == t = EmptyTree

RECURSIVE tree_length(_)
tree_length(t) ==
    IF is_empty(t) THEN 0
    ELSE Wrap(t.data.left_subtree_length + t.data.piece.length + tree_length(t.right))

RECURSIVE tree_lf_count(_)
tree_lf_count(t) ==
    IF is_empty(t) THEN 0
    ELSE Wrap(t.data.left_subtree_lf_count + t.data.piece.newline_count
              + tree_lf_count(t.right))

\* attribute that keeps the sums the node data came with.
attribute_stale(data, left) == data

attribute(data, left) ==
    [piece |-> data.piece,
     left_subtree_length |-> tree_length(left),
     left_subtree_lf_count |-> tree_lf_count(left)]

\* RedBlackTree(Color, lft, val, rgt): every new node recomputes its
\* augmentation from the left child it is given.
Node(c, lft, val, rgt) ==
    [color |-> c, left |-> lft, data |-> attribute(val, lft), right |-> rgt]

\* { piece }: a NodeData with zeroed augmentation.
NodeData(piece) ==
    [piece |-> piece, left_subtree_length |-> 0, left_subtree_lf_count |-> 0]

paint(t, c) == Node(c, t.left, t.data, t.right)

doubled_left(t) ==
    /\ ~is_empty(t)
    /\ t.color = "Red"
    /\ ~is_empty(t.left)
    /\ t.left.color = "Red"

doubled_right(t) ==
    /\ ~is_empty(t)
    /\ t.color = "Red"
    /\ ~is_empty(t.right)
    /\ t.right.color = "Red"

\* balance that never rotates.
balance_no_rotation(c, lft, x, rgt) == Node(c, lft, x, rgt)

\* balance(Color, lft, x, rgt): the four red-red patterns of insertion.
balance(c, lft, x, rgt) ==
    IF c # "Black" THEN Node(c, lft, x, rgt)
    ELSE IF doubled_left(lft)
    THEN Node("Red", paint(lft.left, "Black"), lft.data,
              Node("Black", lft.right, x, rgt))
    ELSE IF doubled_right(lft)
    THEN Node("Red", Node("Black", lft.left, lft.data, lft.right.left),
              lft.right.data,
              Node("Black", lft.right.right, x, rgt))
    ELSE IF doubled_left(rgt)
    THEN Node("Red", Node("Black", lft, x, rgt.left.left),
              rgt.left.data,
              Node("Black", rgt.left.right, rgt.data, rgt.right))
    ELSE IF doubled_right(rgt)
    THEN Node("Red", Node("Black", lft, x, rgt.left),
              rgt.data,
              paint(rgt.right, "Black"))
    ELSE Node(c, lft, x, rgt)

RECURSIVE ins(_, _, _, _)
ins(t, x, at, total_offset) ==
    IF is_empty(t) THEN Node("Red", EmptyTree, x, EmptyTree)
    ELSE LET y == t.data IN
         IF at < Wrap(total_offset + y.left_subtree_length + y.piece.length)
         THEN balance(t.color, ins(t.left, x, at, total_offset), y, t.right)
         ELSE balance(t.color, t.left, y,
                      ins(t.right, x, at,
                          Wrap(total_offset + y.left_subtree_length + y.piece.length)))

\* RedBlackTree(Color::Black, t.left(), t.root(), t.right()): what insert and
\* remove return.
black_root(t) == Node("Black", t.left, t.data, t.right)

\* RedBlackTree::insert
rb_insert(t, x, at) == black_root(ins(t, x, at, 0))

\* balance(node): the one-argument overload used by removal.
balance_node(node) ==
    IF /\ ~is_empty(node.left)
       /\ node.left.color = "Red"
       /\ ~is_empty(node.right)
       /\ node.right.color = "Red"
    THEN Node("Red", paint(node.left, "Black"), node.data, paint(node.right, "Black"))
    ELSE balance(node.color, node.left, node.data, node.right)

balance_left(left) ==
    IF ~is_empty(left.left) /\ left.left.color = "Red"
    THEN Node("Red", paint(left.left, "Black"), left.data, left.right)
    ELSE IF ~is_empty(left.right) /\ left.right.color = "Black"
    THEN balance_node(Node("Black", left.left, left.data, paint(left.right, "Red")))
    ELSE IF /\ ~is_empty(left.right)
            /\ left.right.color = "Red"
            /\ ~is_empty(left.right.left)
            /\ left.right.left.color = "Black"
    THEN LET unbalanced_new_right ==
                 Node("Black", left.right.left.right, left.right.data,
                      paint(left.right.right, "Red"))
             new_right == balance_node(unbalanced_new_right)
             new_left == Node("Black", left.left, left.data, left.right.left.left)
         IN Node("Red", new_left, left.right.left.data, new_right)
    ELSE left

balance_right(right) ==
    IF ~is_empty(right.right) /\ right.right.color = "Red"
    THEN Node("Red", right.left, right.data, paint(right.right, "Black"))
    ELSE IF ~is_empty(right.left) /\ right.left.color = "Black"
    THEN balance_node(Node("Black", paint(right.left, "Red"), right.data, right.right))
    ELSE IF /\ ~is_empty(right.left)
            /\ right.left.color = "Red"
            /\ ~is_empty(right.left.right)
            /\ right.left.right.color = "Black"
    THEN LET unbalanced_new_left ==
                 Node("Black", paint(right.left.left, "Red"), right.left.data,
                      right.left.right.left)
             new_left == balance_node(unbalanced_new_left)
             new_right == Node("Black", right.left.right.right, right.data, right.right)
         IN Node("Red", new_left, right.left.right.data, new_right)
    ELSE right

RECURSIVE fuse(_, _)
fuse(left, right) ==
    IF is_empty(left) THEN right
    ELSE IF is_empty(right) THEN left
    ELSE IF left.color = "Black" /\ right.color = "Red"
    THEN Node("Red", fuse(left, right.left), right.data, right.right)
    ELSE IF left.color = "Red" /\ right.color = "Black"
    THEN Node("Red", left.left, left.data, fuse(left.right, right))
    ELSE IF left.color = "Red" /\ right.color = "Red"
    THEN LET fused == fuse(left.right, right.left) IN
         IF ~is_empty(fused) /\ fused.color = "Red"
         THEN Node("Red",
                   Node("Red", left.left, left.data, fused.left),
                   fused.data,
                   Node("Red", fused.right, right.data, right.right))
         ELSE Node("Red", left.left, left.data,
                   Node("Red", fused, right.data, right.right))
    ELSE LET fused == fuse(left.right, right.left) IN
         IF ~is_empty(fused) /\ fused.color = "Red"
         THEN Node("Red",
                   Node("Black", left.left, left.data, fused.left),
                   fused.data,
                   Node("Black", fused.right, right.data, right.right))
         ELSE balance_left(Node("Red", left.left, left.data,
                                Node("Black", fused, right.data, right.right)))

RECURSIVE rem(_, _, _)
remove_left(root_, at, total) ==
    LET new_left == rem(root_.left, at, total)
        new_node == Node("Red", new_left, root_.data, root_.right)
    IN IF ~is_empty(root_.left) /\ root_.left.color = "Black"
       THEN balance_left(new_node)
       ELSE new_node

\* remove_right that descends without adding the length of the piece it
\* passes.
remove_right_without_piece_length(root_, at, total) ==
    LET y == root_.data
        new_right == rem(root_.right, at, Wrap(total + y.left_subtree_length))
        new_node == Node("Red", root_.left, root_.data, new_right)
    IN IF ~is_empty(root_.right) /\ root_.right.color = "Black"
       THEN balance_right(new_node)
       ELSE new_node

remove_right(root_, at, total) ==
    LET y == root_.data
        new_right == rem(root_.right, at,
                         Wrap(total + y.left_subtree_length + y.piece.length))
        new_node == Node("Red", root_.left, root_.data, new_right)
    IN IF ~is_empty(root_.right) /\ root_.right.color = "Black"
       THEN balance_right(new_node)
       ELSE new_node

rem(root_, at, total) ==
    IF is_empty(root_) THEN EmptyTree
    ELSE LET y == root_.data IN
         IF at < Wrap(total + y.left_subtree_length)
         THEN remove_left(root_, at, total)
         ELSE IF at = Wrap(total + y.left_subtree_length)
         THEN fuse(root_.left, root_.right)
         ELSE remove_right(root_, at, total)

\* RedBlackTree::remove
removed(t) == IF is_empty(t) THEN EmptyTree ELSE black_root(t)

rb_remove(t, at) == removed(rem(t, at, 0))

(***************************************************************************)
(* The alternative removal: member rem, remove_node, remove_double_black.  *)
(* A ColorTree is a tree with the colour its caller is to read; "Aborted"  *)
(* stands for a call that met an assertion (paint, left or root of an      *)
(* empty tree, extend of DoubleBlack).                                     *)
(***************************************************************************)
Aborted == [color |-> "Aborted", tree |-> EmptyTree]

\* ColorTree::double_black()
double_black == [color |-> "DoubleBlack", tree |-> EmptyTree]

\* ColorTree(tree)
ColorTreeOf(t) == [color |-> IF is_empty(t) THEN "Black" ELSE t.color, tree |-> t]

\* ColorTree(c, lft, x, rgt)
ColorTree(c, lft, x, rgt) == [color |-> c, tree |-> Node(c, lft, x, rgt)]

\* extend(c) on a Color
extend_color(c) == IF c = "Red" THEN "Black" ELSE "DoubleBlack"

\* pred(root, start_offset): the rightmost node of the left subtree and its
\* start offset within that subtree.
RECURSIVE pred_walk(_, _)
pred_walk(t, start_offset) ==
    IF ~is_empty(t.right)
    THEN pred_walk(t.right,
                   Wrap(Wrap(start_offset + t.data.left_subtree_length)
                        + t.data.piece.length))
    ELSE [tree |-> t,
          accumulated_offset |-> Wrap(start_offset + t.data.left_subtree_length)]

pred(root_, start_offset) == pred_walk(root_.left, start_offset)

\* The subtree that stood in for a DoubleBlack, painted black.
blackened(ct) == IF is_empty(ct.tree) THEN EmptyTree ELSE paint(ct.tree, "Black")

RECURSIVE remove_double_black(_, _, _, _)
remove_double_black(c, lft, x, rgt) ==
    IF lft.color = "Aborted" \/ rgt.color = "Aborted" THEN Aborted
    ELSE IF lft.color = "DoubleBlack"
    THEN IF rgt.color = "Black"
         THEN IF c = "DoubleBlack" \/ is_empty(rgt.tree) THEN Aborted
              ELSE ColorTree(extend_color(c), blackened(lft), x, paint(rgt.tree, "Red"))
         ELSE IF is_empty(rgt.tree) THEN Aborted
         ELSE IF is_empty(rgt.tree.left) THEN Aborted
         ELSE ColorTree("Black",
                        Node("Black", blackened(lft), x, paint(rgt.tree.left, "Red")),
                        rgt.tree.data, rgt.tree.right)
    ELSE IF rgt.color = "DoubleBlack"
    THEN IF lft.color = "Black"
         THEN IF c = "DoubleBlack" \/ is_empty(lft.tree) THEN Aborted
              ELSE ColorTree(extend_color(c), paint(lft.tree, "Red"), x, blackened(rgt))
         ELSE IF is_empty(lft.tree) THEN Aborted
         ELSE IF is_empty(lft.tree.right) THEN Aborted
         ELSE ColorTree("Black", lft.tree.left, lft.tree.data,
                        Node("Black", paint(lft.tree.right, "Red"), x, blackened(rgt)))
    ELSE IF c = "Black" /\ ~is_empty(lft.tree) /\ lft.color = "Black"
    THEN remove_double_black(c,
             ColorTree("DoubleBlack", lft.tree.left, lft.tree.data, lft.tree.right),
             x, rgt)
    ELSE IF c = "Black" /\ ~is_empty(rgt.tree) /\ rgt.color = "Black"
    THEN remove_double_black(c, lft, x,
             ColorTree("DoubleBlack", rgt.tree.left, rgt.tree.data, rgt.tree.right))
    ELSE ColorTree(c, lft.tree, x, rgt.tree)

\* RedBlackTree::rem(at, total) and RedBlackTree::remove_node()
RECURSIVE member_rem(_, _, _)
remove_node(t) ==
    IF ~is_empty(t.left) /\ ~is_empty(t.right)
    THEN remove_double_black(t.color,
             member_rem(t.left, pred(t, 0).accumulated_offset, 0),
             pred(t, 0).tree.data,
             ColorTreeOf(t.right))
    ELSE IF ~is_empty(t.left) THEN ColorTreeOf(paint(t.left, "Black"))
    ELSE IF ~is_empty(t.right) THEN ColorTreeOf(paint(t.right, "Black"))
    ELSE IF t.color = "Black" THEN double_black
    ELSE ColorTreeOf(EmptyTree)

member_rem(t, at, total) ==
    IF is_empty(t) THEN ColorTreeOf(EmptyTree)
    ELSE IF at < Wrap(total + t.data.left_subtree_length)
    THEN remove_double_black(t.color, member_rem(t.left, at, total), t.data,
                             ColorTreeOf(t.right))
    ELSE IF at = Wrap(total + t.data.left_subtree_length)
    THEN remove_node(t)
    ELSE remove_double_black(t.color, ColorTreeOf(t.left), t.data,
             member_rem(t.right, at,
                        Wrap(Wrap(total + t.data.left_subtree_length)
                             + t.data.piece.length)))

\* RedBlackTree::remove with rem(at, Offset{ 0 }).tree in place of the fuse
\* variant; the root of the result is painted black.
remove_with_double_black(t, at) == removed(member_rem(t, at, 0).tree)

(***************************************************************************)
(* The debug verification of the tree.                                     *)
(***************************************************************************)
has_red_child(node) ==
    \/ ~is_empty(node.left) /\ node.left.color = "Red"
    \/ ~is_empty(node.right) /\ node.right.color = "Red"

\* What check_black_node_invariant does with the results l and r of the two
\* children.
black_nodes(color, l, r) ==
    IF l # 0 /\ r # 0 /\ l # r THEN 0
    ELSE IF l # 0 /\ r # 0 THEN (IF color = "Red" THEN l ELSE l + 1)
    ELSE 0

RECURSIVE check_black_node_invariant(_)
check_black_node_invariant(node) ==
    IF is_empty(node) THEN 1
    ELSE IF node.color = "Red" /\ has_red_child(node) THEN 1
    ELSE black_nodes(node.color,
                     check_black_node_invariant(node.left),
                     check_black_node_invariant(node.right))

\* satisfies_rb_invariants(root) fails its assertion.
satisfies_rb_invariants_asserts(root_) ==
    /\ ~is_empty(root_)
    /\ ~(is_empty(root_.left) /\ is_empty(root_.right))
    /\ check_black_node_invariant(root_) = 0

(***************************************************************************)
(* Piece arithmetic and position lookup of the buffer engine.              *)
(***************************************************************************)
Cursor(l, c) == [line |-> l, column |-> c]

\* NodePosition{}: node == nullptr.
NullNode == [null |-> TRUE]

NullPosition == [node |-> NullNode, remainder |-> 0, start_offset |-> 0, line |-> 0]

line_feed_count(B, index, start, end) ==
    LET starts == buffer_at(B, index).line_starts
        next_start_offset == At(starts, extend(end.line, 1))
        end_offset == At(starts, end.line) + end.column
        previous_char_offset == end_offset - 1
    IN IF end.column = 0 THEN retract(end.line, start.line)
       ELSE IF end.line = Len(starts) - 1 THEN retract(end.line, start.line)
       ELSE IF next_start_offset > end_offset + 1 THEN retract(end.line, start.line)
       ELSE IF At(buffer_at(B, index).buffer, previous_char_offset) = CR
       THEN retract(end.line, start.line + 1)
       ELSE retract(end.line, start.line)

RECURSIVE buffer_position_search(_, _, _, _, _, _)
buffer_position_search(starts, offset, low, high, mid, mid_start) ==
    IF ~(low <= high) THEN [mid |-> mid, mid_start |-> mid_start]
    ELSE LET m == low + ((high - low) \div 2)
             m_start == At(starts, m)
         IN IF m = high THEN [mid |-> m, mid_start |-> m_start]
            ELSE IF offset < m_start
            THEN buffer_position_search(starts, offset, low, retract(m, 1), m, m_start)
            ELSE IF offset >= At(starts, m + 1)
            THEN buffer_position_search(starts, offset, m + 1, high, m, m_start)
            ELSE [mid |-> m, mid_start |-> m_start]

buffer_position(B, piece, remainder) ==
    LET starts == buffer_at(B, piece.index).line_starts
        start_offset == At(starts, piece.first.line) + piece.first.column
        offset == start_offset + remainder
        found == buffer_position_search(starts, offset, piece.first.line,
                                        piece.last.line, 0, 0)
    IN Cursor(found.mid, Wrap(offset - found.mid_start))

\* The walk of node_at.  ptr is the path from the root: it stands for the
\* address of the node, which remove() compares.
RECURSIVE node_at_walk(_, _, _, _, _, _)
node_at_walk(B, node, off, node_start_offset, newline_count, ptr) ==
    IF is_empty(node) THEN NullPosition
    ELSE LET d == node.data IN
         IF d.left_subtree_length > off
         THEN node_at_walk(B, node.left, off, node_start_offset, newline_count,
                           Append(ptr, "L"))
         ELSE IF Wrap(d.left_subtree_length + d.piece.length) > off
         THEN LET remainder == retract(off, d.left_subtree_length)
                  pos == buffer_position(B, d.piece, remainder)
              IN [node |-> [ptr |-> ptr, data |-> d],
                  remainder |-> remainder,
                  start_offset |-> Wrap(node_start_offset + d.left_subtree_length),
                  line |-> Wrap(newline_count + d.left_subtree_lf_count
                                + retract(pos.line, d.piece.first.line) + 1)]
         ELSE IF is_empty(node.right)
         THEN [node |-> [ptr |-> ptr, data |-> d],
               remainder |-> d.piece.length,
               start_offset |-> Wrap(node_start_offset + d.left_subtree_length),
               line |-> Wrap(newline_count + Wrap(d.left_subtree_lf_count
                             + d.piece.newline_count) + 1)]
         ELSE LET offset_amount == Wrap(d.left_subtree_length + d.piece.length) IN
              node_at_walk(B, node.right, retract(off, offset_amount),
                           Wrap(node_start_offset + offset_amount),
                           Wrap(newline_count + Wrap(d.left_subtree_lf_count
                                + d.piece.newline_count)),
                           Append(ptr, "R"))

\* node_at without the end-of-document anchor: an offset behind the last
\* byte finds no node.
node_at_without_end_anchor(B, root_, off) ==
    IF off >= tree_length(root_) THEN NullPosition
    ELSE node_at_walk(B, root_, off, 0, 0, <<>>)

node_at(B, root_, off) == node_at_walk(B, root_, off, 0, 0, <<>>)

\* distance(first, last)
distance(first, last) == Wrap(last - first)

trim_piece_right(B, piece, pos) ==
    LET orig_end_offset == buffer_offset(B, piece.index, piece.last)
        new_end_offset == buffer_offset(B, piece.index, pos)
        new_lf_count == line_feed_count(B, piece.index, piece.first, pos)
        len_delta == distance(new_end_offset, orig_end_offset)
        new_len == retract(piece.length, len_delta)
    IN [index |-> piece.index, first |-> piece.first, last |-> pos,
        length |-> new_len, newline_count |-> new_lf_count]

trim_piece_left(B, piece, pos) ==
    LET orig_start_offset == buffer_offset(B, piece.index, piece.first)
        new_start_offset == buffer_offset(B, piece.index, pos)
        new_lf_count == line_feed_count(B, piece.index, pos, piece.last)
        len_delta == distance(orig_start_offset, new_start_offset)
        new_len == retract(piece.length, len_delta)
    IN [index |-> piece.index, first |-> pos, last |-> piece.last,
        length |-> new_len, newline_count |-> new_lf_count]

shrink_piece(B, piece, first, last) ==
    [left |-> trim_piece_right(B, piece, first),
     right |-> trim_piece_left(B, piece, last)]

(***************************************************************************)
(* The buffer engine (struct Tree).  An engine value T carries the fields  *)
(* the algorithms read and write: buffers, root, last_insert and meta.     *)
(***************************************************************************)
\* compute_buffer_meta that stops at the root node.
compute_buffer_meta_root_only(root_) ==
    IF is_empty(root_) THEN [lf_count |-> 0, total_content_length |-> 0]
    ELSE [lf_count |-> Wrap(root_.data.left_subtree_lf_count
                            + root_.data.piece.newline_count),
          total_content_length |-> Wrap(root_.data.left_subtree_length
                                        + root_.data.piece.length)]

compute_buffer_meta(root_) ==
    [lf_count |-> tree_lf_count(root_), total_content_length |-> tree_length(root_)]

\* The ScopeGuard of insert / remove: recompute meta when the body returns.
with_root(T, new_root) ==
    [T EXCEPT !.root = new_root, !.meta = compute_buffer_meta(new_root)]

\* A resize that loses the bytes the buffer held.
resize_and_copy_clobbering(buffer, txt) == [i \in 1..Len(buffer) |-> "?"] \o txt

\* A copy of txt in front of the bytes the buffer held.
resize_and_copy_in_front(buffer, txt) == txt \o buffer

\* mod_buffer.buffer.resize(size + txt.size()) and the copy of txt behind the
\* old bytes.
resize_and_copy(buffer, txt) == buffer \o txt

\* Builds the piece for txt; returns the piece with the grown modification
\* buffer and the new last_insert cursor.
build_piece(T, txt) ==
    LET mod == T.buffers.mod_buffer
        start_offset == Len(mod.buffer)
        scratch_starts == populate_line_starts(txt)
        shifted == [i \in 1..Len(scratch_starts) |->
                        extend(scratch_starts[i], start_offset)]
        new_mod == [buffer |-> resize_and_copy(mod.buffer, txt),
                    line_starts |-> mod.line_starts \o Tail(shifted)]
        new_buffers == [T.buffers EXCEPT !.mod_buffer = new_mod]
        start == T.last_insert
        end_offset == Len(new_mod.buffer)
        end_index == Len(new_mod.line_starts) - 1
        end_col == end_offset - At(new_mod.line_starts, end_index)
        end_pos == Cursor(end_index, end_col)
        piece == [index |-> ModBuf, first |-> start, last |-> end_pos,
                  length |-> end_offset - start_offset,
                  newline_count |-> line_feed_count(new_buffers, ModBuf, start, end_pos)]
    IN [T |-> [T EXCEPT !.buffers = new_buffers, !.last_insert = end_pos],
        piece |-> piece]

\* build_tree: one piece per non-empty original buffer, in order.
RECURSIVE build_tree_loop(_, _, _, _)
build_tree_loop(orig, i, root_, offset) ==
    IF i >= Len(orig) THEN root_
    ELSE LET buf == At(orig, i)
             last_line == Len(buf.line_starts) - 1
             piece == [index |-> i,
                       first |-> Cursor(0, 0),
                       last |-> Cursor(last_line,
                                       Len(buf.buffer) - At(buf.line_starts, last_line)),
                       length |-> Len(buf.buffer),
                       newline_count |-> last_line]
         IN IF buf.buffer = <<>>
            THEN build_tree_loop(orig, i + 1, root_, offset)
            ELSE build_tree_loop(orig, i + 1,
                                 rb_insert(root_, NodeData(piece), offset),
                                 Wrap(offset + piece.length))

built(orig, root_) ==
    [buffers |-> [orig_buffers |-> orig,
                  mod_buffer |-> [buffer |-> <<>>, line_starts |-> <<0>>]],
     root |-> root_,
     last_insert |-> Cursor(0, 0),
     meta |-> compute_buffer_meta(root_)]

\* build_tree with an offset that never advances: every piece is inserted in
\* front of the pieces before it.
RECURSIVE build_tree_loop_at_front(_, _, _)
build_tree_loop_at_front(orig, i, root_) ==
    IF i >= Len(orig) THEN root_
    ELSE IF At(orig, i).buffer = <<>>
    THEN build_tree_loop_at_front(orig, i + 1, root_)
    ELSE build_tree_loop_at_front(orig, i + 1,
             rb_insert(root_,
                 NodeData([index |-> i,
                           first |-> Cursor(0, 0),
                           last |-> Cursor(Len(At(orig, i).line_starts) - 1,
                                      Len(At(orig, i).buffer)
                                        - At(At(orig, i).line_starts,
                                             Len(At(orig, i).line_starts) - 1)),
                           length |-> Len(At(orig, i).buffer),
                           newline_count |-> Len(At(orig, i).line_starts) - 1]),
                 0))

build_tree_at_front(orig) == built(orig, build_tree_loop_at_front(orig, 0, EmptyTree))

build_tree(orig) == built(orig, build_tree_loop(orig, 0, EmptyTree, 0))

\* Case #3 of insert, tree part: the node goes, its left half, the new piece
\* and its right half come in one after the other.
insert_split(root_, left, mid, right, node_start_offset) ==
    rb_insert(
        rb_insert(
            rb_insert(rb_remove(root_, node_start_offset),
                      NodeData(left), node_start_offset),
            NodeData(mid), Wrap(node_start_offset + left.length)),
        NodeData(right), Wrap(Wrap(node_start_offset + left.length) + mid.length))

\* Case #3 of insert, piece part: the two halves of the piece at insert_pos.
insert_inside(T, bp, piece, insert_pos, node_start_offset) ==
    insert_split(T.root,
        trim_piece_right(T.buffers, piece, insert_pos),
        bp.piece,
        [piece EXCEPT
            !.first = insert_pos,
            !.length = distance(buffer_offset(T.buffers, piece.index, insert_pos),
                                buffer_offset(T.buffers, piece.index, piece.last)),
            !.newline_count = line_feed_count(T.buffers, piece.index,
                                              insert_pos, piece.last)],
        node_start_offset)

\* insert whose case #2 puts the new piece in front of the document.
insert_at_node_end_at_front(T, offset, bp, result) ==
    IF result.start_offset = offset
    THEN [T |-> with_root(bp.T, rb_insert(T.root, NodeData(bp.piece), offset)),
          case |-> "begin"]
    ELSE IF ~(offset < Wrap(result.start_offset + result.node.data.piece.length))
    THEN [T |-> with_root(bp.T, rb_insert(T.root, NodeData(bp.piece), 0)),
          case |-> "end"]
    ELSE [T |-> with_root(bp.T,
                    insert_inside(T, bp, result.node.data.piece,
                        buffer_position(T.buffers, result.node.data.piece,
                                        result.remainder),
                        result.start_offset)),
          case |-> "inside"]

\* The three cases of insert once the node is found; bp is build_piece(txt).
insert_at_node(T, offset, bp, result) ==
    IF result.start_offset = offset
    THEN [T |-> with_root(bp.T, rb_insert(T.root, NodeData(bp.piece), offset)),
          case |-> "begin"]
    ELSE IF ~(offset < Wrap(result.start_offset + result.node.data.piece.length))
    THEN [T |-> with_root(bp.T, rb_insert(T.root, NodeData(bp.piece), offset)),
          case |-> "end"]
    ELSE [T |-> with_root(bp.T,
                    insert_inside(T, bp, result.node.data.piece,
                        buffer_position(T.buffers, result.node.data.piece,
                                        result.remainder),
                        result.start_offset)),
          case |-> "inside"]

\* "If the offset is beyond the buffer, just select the last node."
select_last_node(T, result) ==
    IF result.node = NullNode
    THEN node_at(T.buffers, T.root,
                 IF T.meta.total_content_length # 0
                 THEN retract(T.meta.total_content_length, 1) ELSE 0)
    ELSE result

insert_empty(T, bp) ==
    [T |-> with_root(bp.T, rb_insert(T.root, NodeData(bp.piece), 0)),
     case |-> "empty"]

\* Tree::insert of the source (internal_insert of the header).  The result
\* also names the splice case that was taken.
internal_insert(T, offset, txt) ==
    IF is_empty(T.root)
    THEN insert_empty(T, build_piece(T, txt))
    ELSE insert_at_node(T, offset, build_piece(T, txt),
                        select_last_node(T, node_at(T.buffers, T.root, offset)))

\* The loop of remove_node_range; first is re-located after every removal.
RECURSIVE remove_node_range_loop(_, _, _, _, _, _)
remove_node_range_next(B, new_root, first, deleted_len, length, delete_at_offset) ==
    remove_node_range_loop(B, new_root,
                           node_at(B, new_root, delete_at_offset),
                           Wrap(deleted_len + first.node.data.piece.length),
                           length, delete_at_offset)

\* The loop removing the node it has just located instead of the node at
\* delete_at_offset.
remove_node_range_loop_at_first(B, root_, first, deleted_len, length, delete_at_offset) ==
    IF deleted_len < length /\ first.node # NullNode
    THEN remove_node_range_next(B, rb_remove(root_, first.start_offset), first,
                                deleted_len, length, delete_at_offset)
    ELSE root_

remove_node_range_loop(B, root_, first, deleted_len, length, delete_at_offset) ==
    IF deleted_len < length /\ first.node # NullNode
    THEN remove_node_range_next(B, rb_remove(root_, delete_at_offset), first,
                                deleted_len, length, delete_at_offset)
    ELSE root_

remove_node_range(B, root_, first, length) ==
    remove_node_range_loop(B, root_, first, 0,
        Wrap(Wrap(length - Wrap(first.node.data.piece.length - first.remainder))
             + first.node.data.piece.length),
        first.start_offset)

\* The same loop, iteration by iteration: the roots it goes through, the
\* first being the root it starts with, and whether it ended within fuel
\* iterations.
RECURSIVE remove_node_range_run(_, _, _, _, _, _, _)
run_after(root_, run) ==
    [ended |-> run.ended, roots |-> <<root_>> \o run.roots]

remove_node_range_run_next(B, new_root, first, deleted_len, length, delete_at_offset, fuel) ==
    remove_node_range_run(B, new_root,
                          node_at(B, new_root, delete_at_offset),
                          Wrap(deleted_len + first.node.data.piece.length),
                          length, delete_at_offset, fuel)

remove_node_range_run(B, root_, first, deleted_len, length, delete_at_offset, fuel) ==
    IF deleted_len < length /\ first.node # NullNode
    THEN IF fuel = 0
         THEN [ended |-> FALSE, roots |-> <<root_>>]
         ELSE run_after(root_,
                  remove_node_range_run_next(B, rb_remove(root_, delete_at_offset),
                                             first, deleted_len, length,
                                             delete_at_offset, fuel - 1))
    ELSE [ended |-> TRUE, roots |-> <<root_>>]

\* The length remove_node_range counts up to.
adjusted_length(first, length) ==
    Wrap(Wrap(length - Wrap(first.node.data.piece.length - first.remainder))
         + first.node.data.piece.length)

\* remove, first_node == last_node: the range lies in one piece.
remove_in_node(T, offset, count, first, piece, start_split_pos, end_split_pos) ==
    IF first.start_offset = offset
    THEN IF count = piece.length
         THEN [T |-> with_root(T, rb_remove(T.root, first.start_offset)),
               case |-> "whole"]
         ELSE [T |-> with_root(T,
                        rb_insert(rb_remove(T.root, first.start_offset),
                            NodeData(trim_piece_left(T.buffers, piece, end_split_pos)),
                            first.start_offset)),
               case |-> "prefix"]
    ELSE IF Wrap(first.start_offset + piece.length) = Wrap(offset + count)
    THEN [T |-> with_root(T,
                   rb_insert(rb_remove(T.root, first.start_offset),
                       NodeData(trim_piece_right(T.buffers, piece, start_split_pos)),
                       first.start_offset)),
          case |-> "suffix"]
    ELSE [T |-> with_root(T,
                   rb_insert(
                       rb_insert(rb_remove(T.root, first.start_offset),
                           NodeData(shrink_piece(T.buffers, piece, start_split_pos,
                                                 end_split_pos).right),
                           first.start_offset),
                       NodeData(shrink_piece(T.buffers, piece, start_split_pos,
                                             end_split_pos).left),
                       first.start_offset)),
          case |-> "middle"]

\* remove, several nodes: what is left of the last node comes back.
reinsert_last(ranged, first, last, new_last) ==
    IF last.node # NullNode /\ last.remainder # 0 /\ new_last.length # 0
    THEN rb_insert(ranged, NodeData(new_last), first.start_offset)
    ELSE ranged

\* remove, several nodes: what is left of the first node comes back.
reinsert_first(ranged, first, new_first) ==
    IF new_first.length # 0
    THEN rb_insert(ranged, NodeData(new_first), first.start_offset)
    ELSE ranged

\* remove, first_node != last_node.
remove_across_nodes(T, count, first, last, start_split_pos) ==
    [T |-> with_root(T,
              reinsert_first(
                  reinsert_last(
                      remove_node_range(T.buffers, T.root, first, count),
                      first, last,
                      trim_piece_left(T.buffers, last.node.data.piece,
                          buffer_position(T.buffers, last.node.data.piece,
                                          last.remainder))),
                  first,
                  trim_piece_right(T.buffers, first.node.data.piece, start_split_pos))),
     case |-> "multi"]

remove_between(T, offset, count, first, last, start_split_pos) ==
    IF first.node = last.node
    THEN remove_in_node(T, offset, count, first, first.node.data.piece,
                        start_split_pos,
                        buffer_position(T.buffers, first.node.data.piece,
                                        last.remainder))
    ELSE remove_across_nodes(T, count, first, last, start_split_pos)

remove_from(T, offset, count, first, last) ==
    remove_between(T, offset, count, first, last,
                   buffer_position(T.buffers, first.node.data.piece, first.remainder))

\* Tree::remove of the source (internal_remove of the header), entered with
\* count != 0 and a non-empty root.
internal_remove(T, offset, count) ==
    remove_from(T, offset, count,
                node_at(T.buffers, T.root, offset),
                node_at(T.buffers, T.root, Wrap(offset + count)))

(***************************************************************************)
(* TreeWalker: the forward byte cursor.  A pointer into a buffer is the    *)
(* pair of the buffer index and the byte offset; nullptr is NullPtr.       *)
(***************************************************************************)
NUL == "NUL"

NullPtr == [buf |-> "null", off |-> 0]

\* TreeWalker(tree, offset = 0): one stack entry holding the root.
TreeWalker(root_) ==
    [stack |-> <<[node |-> root_, dir |-> "Left"]>>,
     total_offset |-> 0,
     first_ptr |-> NullPtr,
     last_ptr |-> NullPtr]

stack_back(W) == W.stack[Len(W.stack)]

pop_back(stack) == SubSeq(stack, 1, Len(stack) - 1)

set_back_dir(stack, d) == [stack EXCEPT ![Len(stack)].dir = d]

exhausted(W) ==
    IF W.stack = <<>> THEN TRUE
    ELSE IF W.first_ptr # W.last_ptr THEN FALSE
    ELSE IF Len(W.stack) > 1 THEN FALSE
    ELSE IF is_empty(stack_back(W).node) THEN TRUE
    ELSE stack_back(W).dir = "Right" /\ is_empty(stack_back(W).node.right)

RECURSIVE populate_ptrs(_, _)
populate_ptrs(B, W) ==
    IF exhausted(W) THEN W
    ELSE IF is_empty(stack_back(W).node)
    THEN populate_ptrs(B, [W EXCEPT !.stack = pop_back(W.stack)])
    ELSE LET node == stack_back(W).node
             dir == stack_back(W).dir
             piece == node.data.piece
         IN IF dir = "Left" /\ ~is_empty(node.left)
            THEN populate_ptrs(B,
                     [W EXCEPT !.stack = Append(set_back_dir(W.stack, "Center"),
                                                [node |-> node.left, dir |-> "Left"])])
            ELSE IF dir = "Left" \/ dir = "Center"
            THEN [W EXCEPT
                     !.first_ptr = [buf |-> piece.index,
                                    off |-> buffer_offset(B, piece.index, piece.first)],
                     !.last_ptr = [buf |-> piece.index,
                                   off |-> buffer_offset(B, piece.index, piece.last)],
                     !.stack = set_back_dir(W.stack, "Right")]
            ELSE populate_ptrs(B,
                     [W EXCEPT !.stack = Append(pop_back(W.stack),
                                                [node |-> node.right, dir |-> "Left"])])

\* *first_ptr++ with the offset count.
read_byte(B, W) ==
    [W |-> [W EXCEPT !.total_offset = Wrap(W.total_offset + 1),
                     !.first_ptr.off = W.first_ptr.off + 1],
     c |-> At(buffer_at(B, W.first_ptr.buf).buffer, W.first_ptr.off)]

RECURSIVE next(_, _)
next(B, W) ==
    IF W.first_ptr = W.last_ptr
    THEN LET W1 == populate_ptrs(B, W) IN
         IF exhausted(W1) THEN [W |-> W1, c |-> NUL]
         ELSE IF W1.first_ptr = W1.last_ptr THEN next(B, W1)
         ELSE read_byte(B, W1)
    ELSE read_byte(B, W)

\* The loop of assume_buffer: while (not walker.exhausted()) push_back(next()).
RECURSIVE walk_all(_, _, _)
walk_all(B, W, buf) ==
    IF exhausted(W) THEN buf
    ELSE LET r == next(B, W) IN walk_all(B, r.W, Append(buf, r.c))

\* The byte sequence a forward walker yields from offset 0 over a root.
Content(B, root_) == walk_all(B, TreeWalker(root_), <<>>)

\* The loop of fast_forward_to, at node with offset left to skip.
RECURSIVE fast_forward_loop(_, _, _, _)
fast_forward_loop(B, W, node, offset) ==
    IF is_empty(node) THEN W
    ELSE IF node.data.left_subtree_length > offset
    THEN fast_forward_loop(B,
             [W EXCEPT !.stack = Append(set_back_dir(W.stack, "Center"),
                                        [node |-> node.left, dir |-> "Left"])],
             node.left, offset)
    ELSE IF Wrap(node.data.left_subtree_length + node.data.piece.length) > offset
    THEN [W EXCEPT
             !.stack = set_back_dir(W.stack, "Right"),
             !.first_ptr = [buf |-> node.data.piece.index,
                            off |-> buffer_offset(B, node.data.piece.index,
                                                  node.data.piece.first)
                                    + retract(offset, node.data.left_subtree_length)],
             !.last_ptr = [buf |-> node.data.piece.index,
                           off |-> buffer_offset(B, node.data.piece.index,
                                                 node.data.piece.last)]]
    ELSE fast_forward_loop(B,
             [W EXCEPT !.stack = Append(pop_back(W.stack),
                                        [node |-> node.right, dir |-> "Left"])],
             node.right,
             retract(offset, Wrap(node.data.left_subtree_length
                                  + node.data.piece.length)))

fast_forward_to(B, W, root_, offset) ==
    IF offset = 0 THEN W ELSE fast_forward_loop(B, W, root_, offset)

\* TreeWalker(tree, offset)
TreeWalkerAt(B, root_, offset) ==
    fast_forward_to(B, [TreeWalker(root_) EXCEPT !.total_offset = offset],
                    root_, offset)

\* The walker the loop of assume_buffer leaves behind.
RECURSIVE walk_to_end(_, _)
walk_to_end(B, W) ==
    IF exhausted(W) THEN W ELSE walk_to_end(B, next(B, W).W)

\* The bytes a forward walker constructed at offset yields until exhausted.
ContentFrom(B, root_, offset) == walk_all(B, TreeWalkerAt(B, root_, offset), <<>>)

\* remaining(): the bytes between the walker's offset and the end.
remaining(W, total_content_length) == Wrap(total_content_length - W.total_offset)

(***************************************************************************)
(* The reverse cursor: the mirror image of TreeWalker.  A frame starts in  *)
(* state Right, its slice is consumed from the last byte down, and         *)
(* total_offset is the offset of the next byte to yield.                   *)
(***************************************************************************)
\* Mirror of the loop of fast_forward_to: a node left of the offset stays on
\* the stack as Center, the node holding the offset becomes Left with the
\* slice that ends at the offset, a node right of the offset is dropped.
RECURSIVE reverse_fast_forward_loop(_, _, _, _)
reverse_fast_forward_loop(B, W, node, offset) ==
    IF is_empty(node) THEN W
    ELSE IF node.data.left_subtree_length > offset
    THEN reverse_fast_forward_loop(B,
             [W EXCEPT !.stack = Append(pop_back(W.stack),
                                        [node |-> node.left, dir |-> "Right"])],
             node.left, offset)
    ELSE IF Wrap(node.data.left_subtree_length + node.data.piece.length) > offset
    THEN [W EXCEPT
             !.stack = set_back_dir(W.stack, "Left"),
             !.first_ptr = [buf |-> node.data.piece.index,
                            off |-> buffer_offset(B, node.data.piece.index,
                                                  node.data.piece.first)],
             !.last_ptr = [buf |-> node.data.piece.index,
                           off |-> buffer_offset(B, node.data.piece.index,
                                                 node.data.piece.first)
                                   + retract(offset, node.data.left_subtree_length)
                                   + 1]]
    ELSE reverse_fast_forward_loop(B,
             [W EXCEPT !.stack = Append(set_back_dir(W.stack, "Center"),
                                        [node |-> node.right, dir |-> "Right"])],
             node.right,
             retract(offset, Wrap(node.data.left_subtree_length
                                  + node.data.piece.length)))

\* ReverseTreeWalker(tree, offset)
ReverseTreeWalker(B, root_, offset) ==
    reverse_fast_forward_loop(B,
        [stack |-> <<[node |-> root_, dir |-> "Right"]>>,
         total_offset |-> offset,
         first_ptr |-> NullPtr,
         last_ptr |-> NullPtr],
        root_, offset)

\* Mirror of exhausted: one frame left whose left child is empty and whose
\* slice is consumed.
reverse_exhausted(W) ==
    IF W.stack = <<>> THEN TRUE
    ELSE IF W.first_ptr # W.last_ptr THEN FALSE
    ELSE IF Len(W.stack) > 1 THEN FALSE
    ELSE IF is_empty(stack_back(W).node) THEN TRUE
    ELSE stack_back(W).dir = "Left" /\ is_empty(stack_back(W).node.left)

\* Mirror of populate_ptrs: Right descends right, Center takes this node's
\* slice and turns Left, Left pops and descends into the left child.
RECURSIVE reverse_populate_ptrs(_, _)
reverse_populate_ptrs(B, W) ==
    IF reverse_exhausted(W) THEN W
    ELSE IF is_empty(stack_back(W).node)
    THEN reverse_populate_ptrs(B, [W EXCEPT !.stack = pop_back(W.stack)])
    ELSE IF stack_back(W).dir = "Right" /\ ~is_empty(stack_back(W).node.right)
    THEN reverse_populate_ptrs(B,
             [W EXCEPT !.stack = Append(set_back_dir(W.stack, "Center"),
                                        [node |-> stack_back(W).node.right,
                                         dir |-> "Right"])])
    ELSE IF stack_back(W).dir = "Right" \/ stack_back(W).dir = "Center"
    THEN [W EXCEPT
             !.first_ptr = [buf |-> stack_back(W).node.data.piece.index,
                            off |-> buffer_offset(B, stack_back(W).node.data.piece.index,
                                                  stack_back(W).node.data.piece.first)],
             !.last_ptr = [buf |-> stack_back(W).node.data.piece.index,
                           off |-> buffer_offset(B, stack_back(W).node.data.piece.index,
                                                 stack_back(W).node.data.piece.last)],
             !.stack = set_back_dir(W.stack, "Left")]
    ELSE reverse_populate_ptrs(B,
             [W EXCEPT !.stack = Append(pop_back(W.stack),
                                        [node |-> stack_back(W).node.left,
                                         dir |-> "Right"])])

\* *--last_ptr with the offset count.
reverse_read_byte(B, W) ==
    [W |-> [W EXCEPT !.total_offset = retract(W.total_offset, 1),
                     !.last_ptr.off = W.last_ptr.off - 1],
     c |-> At(buffer_at(B, W.last_ptr.buf).buffer, W.last_ptr.off - 1)]

\* Mirror of next.  A refill that finds an empty slice refills again.
RECURSIVE reverse_next(_, _)
reverse_next(B, W) ==
    IF W.first_ptr # W.last_ptr THEN reverse_read_byte(B, W)
    ELSE IF reverse_exhausted(reverse_populate_ptrs(B, W))
    THEN [W |-> reverse_populate_ptrs(B, W), c |-> NUL]
    ELSE IF reverse_populate_ptrs(B, W).first_ptr = reverse_populate_ptrs(B, W).last_ptr
    THEN reverse_next(B, reverse_populate_ptrs(B, W))
    ELSE reverse_read_byte(B, reverse_populate_ptrs(B, W))

\* The loop of assume_reverse_buffer.
RECURSIVE reverse_walk_all(_, _, _)
reverse_walk_all(B, W, buf) ==
    IF reverse_exhausted(W) THEN buf
    ELSE reverse_walk_all(B, reverse_next(B, W).W, Append(buf, reverse_next(B, W).c))

RECURSIVE reverse_walk_to_end(_, _)
reverse_walk_to_end(B, W) ==
    IF reverse_exhausted(W) THEN W ELSE reverse_walk_to_end(B, reverse_next(B, W).W)

\* The bytes a reverse walker constructed at offset yields until exhausted.
ReverseContentFrom(B, root_, offset) ==
    reverse_walk_all(B, ReverseTreeWalker(B, root_, offset), <<>>)

\* remaining() of the reverse cursor: the bytes from offset 0 up to its own.
reverse_remaining(W) == Wrap(W.total_offset + 1)

(***************************************************************************)
(* Line queries.                                                           *)
(***************************************************************************)
\* Line::IndexBeginning and Line::Beginning.
IndexBeginning == 0

Beginning == 1

\* The tail of accumulate_value (no_lf = FALSE) and accumulate_value_no_lf
\* (no_lf = TRUE) once the buffer offsets first and last are known.
accumulate_span(buffer, first, last, no_lf) ==
    IF ~no_lf THEN Wrap(last - first)
    ELSE IF last = first THEN 0
    ELSE IF At(buffer, last - 1) = LF THEN Wrap(last - 1 - first)
    ELSE Wrap(last - first)

accumulate_to(buf, piece, expected_start, no_lf) ==
    accumulate_span(buf.buffer,
        At(buf.line_starts, piece.first.line) + piece.first.column,
        IF expected_start > piece.last.line
        THEN At(buf.line_starts, piece.last.line) + piece.last.column
        ELSE At(buf.line_starts, expected_start),
        no_lf)

\* accumulate_value / accumulate_value_no_lf: the length of the piece from
\* its first byte to the end of its line index, or to the end of the piece.
accumulate_value(B, piece, index, no_lf) ==
    accumulate_to(buffer_at(B, piece.index), piece,
                  extend(piece.first.line, Wrap(index + 1)), no_lf)

\* line_start<accumulate>(&offset, node, line); the result is *offset.
RECURSIVE line_start(_, _, _, _, _)
line_start(B, node, line, no_lf, offset) ==
    IF is_empty(node) THEN offset
    ELSE IF node.data.left_subtree_lf_count >= retract(line, 1)
    THEN line_start(B, node.left, line, no_lf, offset)
    ELSE IF Wrap(node.data.left_subtree_lf_count + node.data.piece.newline_count)
              >= retract(line, 1)
    THEN Wrap(offset + Wrap(node.data.left_subtree_length
            + (IF Wrap(retract(line, 1) - node.data.left_subtree_lf_count) # 0
               THEN accumulate_value(B, node.data.piece,
                        Wrap(Wrap(retract(line, 1) - node.data.left_subtree_lf_count) - 1),
                        no_lf)
               ELSE 0)))
    ELSE line_start(B, node.right,
             Wrap(Wrap(retract(line, 1)
                       - Wrap(node.data.left_subtree_lf_count
                              + node.data.piece.newline_count)) + 1),
             no_lf,
             Wrap(Wrap(offset + node.data.left_subtree_length)
                  + node.data.piece.length))

\* assert(line != Line::IndexBeginning) of line_start, met on a node.
line_start_asserts(node, line) == ~is_empty(node) /\ line = IndexBeginning

\* get_line_range(line)
get_line_range(B, root_, line) ==
    [first |-> line_start(B, root_, line, FALSE, 0),
     last |-> line_start(B, root_, extend(line, 1), TRUE, 0)]

\* The byte a position stands for; the byte at the size of a buffer is the
\* terminator of its string.
char_at_position(B, result) ==
    IF result.node = NullNode THEN NUL
    ELSE IF buffer_offset(B, result.node.data.piece.index,
                          result.node.data.piece.first) + result.remainder
              < Len(buffer_at(B, result.node.data.piece.index).buffer)
    THEN At(buffer_at(B, result.node.data.piece.index).buffer,
            buffer_offset(B, result.node.data.piece.index,
                          result.node.data.piece.first) + result.remainder)
    ELSE NUL

\* at(offset) with the range test one too wide: the end anchor of node_at is
\* read as a byte.
Tree_at_reading_end_anchor(B, root_, meta_, offset) ==
    IF offset > meta_.total_content_length THEN NUL
    ELSE char_at_position(B, node_at(B, root_, offset))

\* Tree::at(offset): the byte at offset, 0 if offset is out of range.
Tree_at(B, root_, meta_, offset) ==
    IF offset >= meta_.total_content_length THEN NUL
    ELSE char_at_position(B, node_at(B, root_, offset))

\* line_at(offset)
line_at(B, root_, offset) == node_at(B, root_, offset).line

\* get_line_range_with_newline(line): both ends are line starts, last is the
\* offset at which the next line starts.
get_line_range_with_newline(B, root_, line) ==
    [first |-> line_start(B, root_, line, FALSE, 0),
     last |-> line_start(B, root_, extend(line, 1), FALSE, 0)]

\* line_count()
line_count(meta_) == Wrap(meta_.lf_count + 1)

\* The loop of assemble_line: bytes are appended until the walker is
\* exhausted or yields '\n'.
RECURSIVE assemble_loop(_, _, _)
assemble_loop(B, W, buf) ==
    IF exhausted(W) THEN buf
    ELSE IF next(B, W).c = LF THEN buf
    ELSE assemble_loop(B, next(B, W).W, Append(buf, next(B, W).c))

\* assemble_line(buf, node, line)
assemble_line(B, node, line) ==
    IF is_empty(node) THEN <<>>
    ELSE assemble_loop(B, TreeWalkerAt(B, node, line_start(B, node, line, FALSE, 0)),
                       <<>>)

\* get_line_content(buf, line); the result is *buf.
get_line_content(B, root_, line) ==
    IF line = IndexBeginning THEN <<>> ELSE assemble_line(B, root_, line)

(***************************************************************************)
(* The document a tree stands for.                                         *)
(***************************************************************************)
\* The pieces of a tree, left to right.
RECURSIVE pieces_of(_)
pieces_of(t) ==
    IF is_empty(t) THEN <<>>
    ELSE pieces_of(t.left) \o <<t.data.piece>> \o pieces_of(t.right)

\* The bytes of the buffer range [first, last) a piece denotes.
piece_bytes(B, piece) ==
    SubSeq(buffer_at(B, piece.index).buffer,
           buffer_offset(B, piece.index, piece.first) + 1,
           buffer_offset(B, piece.index, piece.last))

\* The document a root denotes: the bytes of its pieces, left to right.
RECURSIVE concat_pieces(_, _)
concat_pieces(B, ps) ==
    IF ps = <<>> THEN <<>>
    ELSE piece_bytes(B, Head(ps)) \o concat_pieces(B, Tail(ps))

document(B, root_) == concat_pieces(B, pieces_of(root_))

(***************************************************************************)
(* The state of one engine and of its caller.                              *)
(***************************************************************************)
VARIABLES
    buffers,          \* BufferCollection: orig_buffers and mod_buffer
    root,             \* the current tree
    last_insert,      \* BufferCursor at the end of the modification buffer
    end_last_insert,  \* document offset where the last insert ended
    meta,             \* BufferMeta
    undo_stack,       \* front of the list first
    redo_stack,       \* front of the list first
    heads,            \* roots the caller obtained from head()
    op,               \* the last call and what it returned
    steps,            \* number of calls made so far
    snap              \* the owning snapshot a reader holds, and its reader

vars == <<buffers, root, last_insert, end_last_insert, meta,
          undo_stack, redo_stack, heads, op, steps, snap>>

\* The slices handed to TreeBuilder::accept before create().
InitialSlices ==
    { <<>>,
      << <<"a", CR, LF, "b">> >>,
      << <<"a">>, <<>>, <<LF>>, <<"b">> >> }

\* The texts a caller inserts; the empty text makes insert a no-op.
Texts == { <<>>, <<"x">>, <<LF, "y">> }

\* The offsets a caller passes: every position of the document and one past it.
Offsets == 0..(meta.total_content_length + 1)

\* The counts a caller passes to remove; count 0 makes remove a no-op.
Counts == 0..MaxCount

\* The offsets a caller hands to try_undo, try_redo and commit_head.
OpOffsets == {5, 6}

Engine == [buffers |-> buffers, root |-> root,
           last_insert |-> last_insert, meta |-> meta]

\* What the caller knows of a commit_head: nothing ("none"); the offset it
\* passed and the document it committed, while only suppressed edits followed
\* ("open"); the offset it passed to the try_undo that took the commit back
\* and the document that try_undo left ("undone"); the same once the try_redo
\* right after that try_undo has succeeded ("redone").
NoCommit == [phase |-> "none", op_offset |-> 0, content |-> <<>>]

kept_commit(suppress) ==
    IF suppress /\ op.commit.phase = "open" THEN op.commit ELSE NoCommit

undone_commit(op_offset) ==
    IF op.commit.phase = "open"
    THEN [phase |-> "undone", op_offset |-> op_offset,
          content |-> document(buffers, root)]
    ELSE NoCommit

redone_commit ==
    IF op.commit.phase = "undone"
    THEN [op.commit EXCEPT !.phase = "redone"]
    ELSE NoCommit

NoOp == [kind |-> "create", offset |-> 0, txt |-> <<>>, count |-> 0,
         suppress |-> FALSE, case |-> "none", success |-> FALSE, op_offset |-> 0,
         prev |-> "none", chain |-> 0, commit |-> NoCommit]

\* "insert" or "remove" if the call o was an edit that took effect in default
\* mode, "other" for every other call.
default_edit(o) ==
    IF o.kind \in {"insert", "remove"} /\ ~o.suppress /\ o.case # "noop"
    THEN o.kind ELSE "other"

\* A call record: the entry point, its arguments, the path it took, what it
\* returned, and which kind of call came right before it.  chain counts the
\* links of an undo round trip: 1 after a try_undo that succeeded, 2 after a
\* try_redo that succeeded right after it, 3 after a try_undo that succeeded
\* right after that, 0 after every other call.
Call(kind, offset) ==
    [NoOp EXCEPT !.kind = kind, !.offset = offset, !.prev = default_edit(op)]

\* No snapshot has been taken.
NoSnap == [taken |-> FALSE]

\* A fresh engine T: nothing inserted, no history, no call made.
Created(T) ==
    /\ snap = NoSnap
    /\ buffers = T.buffers
    /\ root = T.root
    /\ last_insert = T.last_insert
    /\ meta = T.meta
    /\ end_last_insert = Sentinel
    /\ undo_stack = <<>>
    /\ redo_stack = <<>>
    /\ heads = {}
    /\ op = NoOp
    /\ steps = 0

Init == \E slices \in InitialSlices : Created(build_tree(accept_all(slices)))

SetEngine(T) ==
    /\ buffers' = T.buffers
    /\ root' = T.root
    /\ last_insert' = T.last_insert
    /\ meta' = T.meta

\* The engine after an edit r, and the record of the call that made it.
Edited(call, r) ==
    /\ SetEngine(r.T)
    /\ op' = [call EXCEPT !.case = r.case]

\* append_undo that forgets where the operation happened.
append_undo_offset_lost(old_root, op_offset) ==
    /\ undo_stack' = <<[root |-> old_root, op_offset |-> 0]>> \o undo_stack
    /\ redo_stack' = <<>>

\* append_undo: a new undo entry destroys the redo stack.
append_undo(old_root, op_offset) ==
    /\ undo_stack' = <<[root |-> old_root, op_offset |-> op_offset]>> \o undo_stack
    /\ redo_stack' = <<>>

\* insert that records history whether or not the caller suppressed it.
Insert_ignoring_suppress(offset, txt, suppress) ==
    /\ UNCHANGED heads
    /\ IF txt = <<>>
       THEN /\ UNCHANGED <<buffers, root, last_insert, end_last_insert, meta,
                           undo_stack, redo_stack>>
            /\ op' = [Call("insert", offset) EXCEPT !.suppress = suppress, !.case = "noop",
                                  !.commit = kept_commit(suppress)]
       ELSE /\ IF end_last_insert # offset \/ is_empty(root)
               THEN append_undo(root, offset)
               ELSE UNCHANGED <<undo_stack, redo_stack>>
            /\ end_last_insert' = extend(offset, Len(txt))
            /\ Edited([Call("insert", offset) EXCEPT !.txt = txt,
                                                     !.suppress = suppress,
                                                     !.commit = kept_commit(suppress)],
                      internal_insert(Engine, offset, txt))

\* insert(offset, txt, suppress_history)
Insert(offset, txt, suppress) ==
    /\ UNCHANGED heads
    /\ IF txt = <<>>
       THEN /\ UNCHANGED <<buffers, root, last_insert, end_last_insert, meta,
                           undo_stack, redo_stack>>
            /\ op' = [Call("insert", offset) EXCEPT !.suppress = suppress, !.case = "noop",
                                  !.commit = kept_commit(suppress)]
       ELSE /\ IF ~suppress /\ (end_last_insert # offset \/ is_empty(root))
               THEN append_undo(root, offset)
               ELSE UNCHANGED <<undo_stack, redo_stack>>
            /\ end_last_insert' = extend(offset, Len(txt))
            /\ Edited([Call("insert", offset) EXCEPT !.txt = txt,
                                                     !.suppress = suppress,
                                                     !.commit = kept_commit(suppress)],
                      internal_insert(Engine, offset, txt))

\* remove that records an undo point before it finds there is nothing to do.
Remove_recording_noop(offset, count, suppress) ==
    /\ UNCHANGED <<heads, end_last_insert>>
    /\ IF count = 0 \/ is_empty(root)
       THEN /\ UNCHANGED <<buffers, root, last_insert, meta>>
            /\ IF ~suppress
               THEN append_undo(root, offset)
               ELSE UNCHANGED <<undo_stack, redo_stack>>
            /\ op' = [Call("remove", offset) EXCEPT !.count = count, !.suppress = suppress,
                                  !.case = "noop",
                                  !.commit = kept_commit(suppress)]
       ELSE /\ IF ~suppress
               THEN append_undo(root, offset)
               ELSE UNCHANGED <<undo_stack, redo_stack>>
            /\ Edited([Call("remove", offset) EXCEPT !.count = count,
                                                     !.suppress = suppress,
                                                     !.commit = kept_commit(suppress)],
                      internal_remove(Engine, offset, count))

\* remove(offset, count, suppress_history)
Remove(offset, count, suppress) ==
    /\ UNCHANGED <<heads, end_last_insert>>
    /\ IF count = 0 \/ is_empty(root)
       THEN /\ UNCHANGED <<buffers, root, last_insert, meta, undo_stack, redo_stack>>
            /\ op' = [Call("remove", offset) EXCEPT !.count = count, !.suppress = suppress,
                                  !.case = "noop",
                                  !.commit = kept_commit(suppress)]
       ELSE /\ IF ~suppress
               THEN append_undo(root, offset)
               ELSE UNCHANGED <<undo_stack, redo_stack>>
            /\ Edited([Call("remove", offset) EXCEPT !.count = count,
                                                     !.suppress = suppress,
                                                     !.commit = kept_commit(suppress)],
                      internal_remove(Engine, offset, count))

\* try_undo that records a redo point even when there is nothing to undo.
TryUndo_recording_failure(op_offset) ==
    /\ UNCHANGED <<buffers, last_insert, end_last_insert, heads>>
    /\ IF undo_stack = <<>>
       THEN /\ UNCHANGED <<root, meta, undo_stack>>
            /\ redo_stack' = <<[root |-> root, op_offset |-> op_offset]>> \o redo_stack
            /\ op' = Call("try_undo", op_offset)
       ELSE /\ redo_stack' = <<[root |-> root, op_offset |-> op_offset]>> \o redo_stack
            /\ root' = Head(undo_stack).root
            /\ undo_stack' = Tail(undo_stack)
            /\ meta' = compute_buffer_meta(Head(undo_stack).root)
            /\ op' = [Call("try_undo", op_offset) EXCEPT !.success = TRUE,
                                  !.op_offset = Head(undo_stack).op_offset,
                                  !.chain = IF op.chain = 2 THEN 3 ELSE 1,
                                  !.commit = undone_commit(op_offset)]

\* try_undo(op_offset)
TryUndo(op_offset) ==
    /\ UNCHANGED <<buffers, last_insert, end_last_insert, heads>>
    /\ IF undo_stack = <<>>
       THEN /\ UNCHANGED <<root, meta, undo_stack, redo_stack>>
            /\ op' = Call("try_undo", op_offset)
       ELSE /\ redo_stack' = <<[root |-> root, op_offset |-> op_offset]>> \o redo_stack
            /\ root' = Head(undo_stack).root
            /\ undo_stack' = Tail(undo_stack)
            /\ meta' = compute_buffer_meta(Head(undo_stack).root)
            /\ op' = [Call("try_undo", op_offset) EXCEPT !.success = TRUE,
                                  !.op_offset = Head(undo_stack).op_offset,
                                  !.chain = IF op.chain = 2 THEN 3 ELSE 1,
                                  !.commit = undone_commit(op_offset)]

\* try_redo that hands the offset it popped on to the undo entry it pushes.
TryRedo_keeping_offset(op_offset) ==
    /\ UNCHANGED <<buffers, last_insert, end_last_insert, heads>>
    /\ IF redo_stack = <<>>
       THEN /\ UNCHANGED <<root, meta, undo_stack, redo_stack>>
            /\ op' = Call("try_redo", op_offset)
       ELSE /\ undo_stack' = <<[root |-> root, op_offset |-> Head(redo_stack).op_offset]>>
                                 \o undo_stack
            /\ root' = Head(redo_stack).root
            /\ redo_stack' = Tail(redo_stack)
            /\ meta' = compute_buffer_meta(Head(redo_stack).root)
            /\ op' = [Call("try_redo", op_offset) EXCEPT !.success = TRUE,
                                  !.op_offset = Head(redo_stack).op_offset,
                                  !.chain = IF op.chain = 1 THEN 2 ELSE 0,
                                  !.commit = redone_commit]

\* try_redo(op_offset)
TryRedo(op_offset) ==
    /\ UNCHANGED <<buffers, last_insert, end_last_insert, heads>>
    /\ IF redo_stack = <<>>
       THEN /\ UNCHANGED <<root, meta, undo_stack, redo_stack>>
            /\ op' = Call("try_redo", op_offset)
       ELSE /\ undo_stack' = <<[root |-> root, op_offset |-> op_offset]>> \o undo_stack
            /\ root' = Head(redo_stack).root
            /\ redo_stack' = Tail(redo_stack)
            /\ meta' = compute_buffer_meta(Head(redo_stack).root)
            /\ op' = [Call("try_redo", op_offset) EXCEPT !.success = TRUE,
                                  !.op_offset = Head(redo_stack).op_offset,
                                  !.chain = IF op.chain = 1 THEN 2 ELSE 0,
                                  !.commit = redone_commit]

\* commit_head that forgets the offset it was given.
CommitHead_offset_lost(offset) ==
    /\ undo_stack' = <<[root |-> root, op_offset |-> 0]>> \o undo_stack
    /\ UNCHANGED <<buffers, root, last_insert, end_last_insert, meta,
                   redo_stack, heads>>
    /\ op' = [Call("commit_head", offset) EXCEPT
                 !.commit = [phase |-> "open", op_offset |-> offset,
                             content |-> document(buffers, root)]]

\* commit_head(offset): push the current root as an undo point.
CommitHead(offset) ==
    /\ undo_stack' = <<[root |-> root, op_offset |-> offset]>> \o undo_stack
    /\ UNCHANGED <<buffers, root, last_insert, end_last_insert, meta,
                   redo_stack, heads>>
    /\ op' = [Call("commit_head", offset) EXCEPT
                 !.commit = [phase |-> "open", op_offset |-> offset,
                             content |-> document(buffers, root)]]

\* head(): the caller keeps the current root.
TakeHead ==
    /\ Cardinality(heads) < MaxHeads
    /\ root \notin heads
    /\ heads' = heads \cup {root}
    /\ UNCHANGED <<buffers, root, last_insert, end_last_insert, meta,
                   undo_stack, redo_stack>>
    /\ op' = Call("head", 0)

\* snap_to that installs the root and keeps the metadata of the state it left.
SnapTo_stale_meta(new_root) ==
    /\ root' = new_root
    /\ UNCHANGED <<buffers, last_insert, end_last_insert, meta, undo_stack,
                   redo_stack, heads>>
    /\ op' = Call("snap_to", 0)

\* snap_to(new_root) with a root obtained from head() of this engine.
SnapTo(new_root) ==
    /\ root' = new_root
    /\ meta' = compute_buffer_meta(new_root)
    /\ UNCHANGED <<buffers, last_insert, end_last_insert, undo_stack,
                   redo_stack, heads>>
    /\ op' = Call("snap_to", 0)

\* One more call, if the caller has calls left.
Bounded(limit, A) == steps < limit /\ steps' = steps + 1 /\ A /\ UNCHANGED snap

Next ==
    \/ \E offset \in Offsets, txt \in Texts, suppress \in BOOLEAN :
           Bounded(MaxOps, Insert(offset, txt, suppress))
    \/ \E offset \in Offsets, count \in Counts, suppress \in BOOLEAN :
           Bounded(MaxOps, Remove(offset, count, suppress))
    \/ \E op_offset \in OpOffsets : Bounded(MaxOps, TryUndo(op_offset))
    \/ \E op_offset \in OpOffsets : Bounded(MaxOps, TryRedo(op_offset))
    \/ \E offset \in OpOffsets : Bounded(MaxOps, CommitHead(offset))
    \/ Bounded(MaxOps, TakeHead)
    \/ \E new_root \in heads : Bounded(MaxOps, SnapTo(new_root))

Spec == Init /\ [][Next]_vars

(***************************************************************************)
(* The history specification: the same engine driven by one-byte edits,    *)
(* which leaves room for longer sequences of calls.                        *)
(***************************************************************************)
InitHistory == Created(build_tree(accept_all(<< <<"a", "b">> >>)))

NextHistory ==
    \/ \E offset \in Offsets, suppress \in BOOLEAN :
           Bounded(MaxHistoryOps, Insert(offset, <<"x">>, suppress))
    \/ \E offset \in Offsets, suppress \in BOOLEAN :
           Bounded(MaxHistoryOps, Remove(offset, 1, suppress))
    \/ \E op_offset \in OpOffsets : Bounded(MaxHistoryOps, TryUndo(op_offset))
    \/ \E op_offset \in OpOffsets : Bounded(MaxHistoryOps, TryRedo(op_offset))
    \/ \E offset \in OpOffsets : Bounded(MaxHistoryOps, CommitHead(offset))
    \/ Bounded(MaxHistoryOps, TakeHead)
    \/ \E new_root \in heads : Bounded(MaxHistoryOps, SnapTo(new_root))

SpecHistory == InitHistory /\ [][NextHistory]_vars

(***************************************************************************)
(* The undo specification: edits at the two ends of the document only,     *)
(* which leaves room for an edit, its undo, its redo and one more call.    *)
(***************************************************************************)
EndOffsets == {0, meta.total_content_length}

NextUndo ==
    \/ \E offset \in EndOffsets, suppress \in BOOLEAN :
           Bounded(MaxUndoOps, Insert(offset, <<"x">>, suppress))
    \/ \E suppress \in BOOLEAN : Bounded(MaxUndoOps, Remove(0, 1, suppress))
    \/ \E op_offset \in OpOffsets : Bounded(MaxUndoOps, TryUndo(op_offset))
    \/ \E op_offset \in OpOffsets : Bounded(MaxUndoOps, TryRedo(op_offset))
    \/ \E offset \in OpOffsets : Bounded(MaxUndoOps, CommitHead(offset))
    \/ Bounded(MaxUndoOps, TakeHead)
    \/ \E new_root \in heads : Bounded(MaxUndoOps, SnapTo(new_root))

SpecUndo == InitHistory /\ [][NextUndo]_vars

(***************************************************************************)
(* Owning snapshots.  A reader takes one snapshot of the engine and reads  *)
(* through it, one call at a time, while the caller goes on editing.       *)
(***************************************************************************)
MaxSnapshotOps == 3

\* OwningSnapshot(tree): the root, the metadata and a copy of the buffer
\* collection of the engine.
OwningSnapshot(T) == [root |-> T.root, meta |-> T.meta, buffers |-> T.buffers]

\* A snapshot that keeps nothing of its own: its reads see the engine as it
\* is when they are made.
snapshot_view_following_engine(S) ==
    [root |-> root, meta |-> meta, buffers |-> buffers]

\* What a read through the snapshot S looks at.
snapshot_view(S) == S

\* What the reads of the snapshot return when they are made at once: the
\* bytes of a walker from offset 0, line_at for every offset, and
\* get_line_range and get_line_content for every line.
line_reads_of(V) ==
    [line_at |-> [o \in 0..(V.meta.total_content_length + 1) |->
                     line_at(V.buffers, V.root, o)],
     line_range |-> [l \in 1..(line_count(V.meta) + 1) |->
                        get_line_range(V.buffers, V.root, l)],
     line_content |-> [l \in 1..(line_count(V.meta) + 1) |->
                          get_line_content(V.buffers, V.root, l)]]

InitSnapshot == Created(build_tree(accept_all(<< <<"a", LF, "b">> >>)))

\* owning_snap() and a walker over the snapshot; content and expect are what
\* a walk from offset 0 and the line queries return at this moment.
OwningSnap ==
    /\ ~snap.taken
    /\ snap' = [taken |-> TRUE,
                own |-> OwningSnapshot(Engine),
                W |-> TreeWalker(root),
                buf |-> <<>>,
                content |-> Content(buffers, root),
                expect |-> line_reads_of(Engine)]
    /\ UNCHANGED <<buffers, root, last_insert, end_last_insert, meta,
                   undo_stack, redo_stack, heads, op, steps>>

\* One call of next() on the reader's walker.
ReaderNext ==
    /\ snap.taken
    /\ ~exhausted(snap.W)
    /\ snap' = [snap EXCEPT
                   !.W = next(snapshot_view(snap.own).buffers, snap.W).W,
                   !.buf = Append(@, next(snapshot_view(snap.own).buffers, snap.W).c)]
    /\ UNCHANGED <<buffers, root, last_insert, end_last_insert, meta,
                   undo_stack, redo_stack, heads, op, steps>>

NextSnapshot ==
    \/ OwningSnap
    \/ ReaderNext
    \/ \E offset \in EndOffsets :
           Bounded(MaxSnapshotOps, Insert(offset, <<"x">>, FALSE))
    \/ \E offset \in EndOffsets : Bounded(MaxSnapshotOps, Remove(offset, 1, FALSE))
    \/ Bounded(MaxSnapshotOps, TryUndo(0))
    \/ Bounded(MaxSnapshotOps, TryRedo(0))
    \/ Bounded(MaxSnapshotOps, TakeHead)
    \/ \E new_root \in heads : Bounded(MaxSnapshotOps, SnapTo(new_root))

SpecSnapshot == InitSnapshot /\ [][NextSnapshot]_vars

(***************************************************************************)
(* The range-removal specification: a document of three pieces, one-byte   *)
(* inserts, and removes whose range may run past the end of the document.  *)
(***************************************************************************)
InitRange == Created(build_tree(accept_all(<< <<"a">>, <<"b">>, <<"c">> >>)))

NextRange ==
    \/ \E offset \in Offsets :
           Bounded(MaxRangeOps, Insert(offset, <<"x">>, FALSE))
    \/ \E offset \in Offsets, count \in 1..MaxRangeCount :
           Bounded(MaxRangeOps, Remove(offset, count, FALSE))

SpecRange == InitRange /\ [][NextRange]_vars

(***************************************************************************)
(* The tree-only specification: RedBlackTree::insert and ::remove applied  *)
(* in any order to trees of abstract pieces.                               *)
(***************************************************************************)
\* Pieces as the tree sees them: a length and a newline count.
RBPieces ==
    { [index |-> 0, first |-> Cursor(0, 0), last |-> Cursor(0, 0),
       length |-> 1, newline_count |-> 0],
      [index |-> 0, first |-> Cursor(0, 0), last |-> Cursor(0, 0),
       length |-> 2, newline_count |-> 1] }

RECURSIVE node_count(_)
node_count(t) ==
    IF is_empty(t) THEN 0 ELSE node_count(t.left) + 1 + node_count(t.right)

InitRB == Created(build_tree(<<>>))

RBInsert(x, at) ==
    /\ node_count(root) < MaxNodes
    /\ root' = rb_insert(root, NodeData(x), at)
    /\ op' = Call("rb_insert", at)
    /\ UNCHANGED <<buffers, last_insert, end_last_insert, meta, undo_stack,
                   redo_stack, heads, steps, snap>>

RBRemove(at) ==
    /\ ~is_empty(root)
    /\ root' = rb_remove(root, at)
    /\ op' = [Call("rb_remove", at) EXCEPT !.count = node_count(root)]
    /\ UNCHANGED <<buffers, last_insert, end_last_insert, meta, undo_stack,
                   redo_stack, heads, steps, snap>>

NextRB ==
    \/ \E x \in RBPieces, at \in 0..(tree_length(root) + 1) : RBInsert(x, at)
    \/ \E at \in 0..tree_length(root) : RBRemove(at)

SpecRB == InitRB /\ [][NextRB]_vars

(***************************************************************************)
(* Vocabulary of the properties.                                           *)
(***************************************************************************)
RECURSIVE nodes_of(_)
nodes_of(t) ==
    IF is_empty(t) THEN {} ELSE nodes_of(t.left) \cup {t} \cup nodes_of(t.right)

RECURSIVE sum_length(_)
sum_length(ps) ==
    IF ps = <<>> THEN 0 ELSE Wrap(Head(ps).length + sum_length(Tail(ps)))

RECURSIVE sum_newline_count(_)
sum_newline_count(ps) ==
    IF ps = <<>> THEN 0 ELSE Wrap(Head(ps).newline_count + sum_newline_count(Tail(ps)))

\* Number of '\n' bytes in a byte sequence.
RECURSIVE count_lf(_)
count_lf(bytes) ==
    IF bytes = <<>> THEN 0
    ELSE (IF Head(bytes) = LF THEN 1 ELSE 0) + count_lf(Tail(bytes))

\* Number of black nodes on every path to an empty tree; -1 if paths differ.
RECURSIVE black_height(_)
black_height(t) ==
    IF is_empty(t) THEN 0
    ELSE LET l == black_height(t.left)
             r == black_height(t.right)
         IN IF l < 0 \/ r < 0 \/ l # r THEN -1
            ELSE IF t.color = "Red" THEN l ELSE l + 1

no_red_red(t) ==
    \A n \in nodes_of(t) :
        n.color = "Red" =>
            /\ is_empty(n.left) \/ n.left.color # "Red"
            /\ is_empty(n.right) \/ n.right.color # "Red"

valid_red_black(t) ==
    /\ \A n \in nodes_of(t) : n.color \in {"Red", "Black"}
    /\ is_empty(t) \/ t.color = "Black"
    /\ no_red_red(t)
    /\ black_height(t) >= 0

augmented(t) ==
    \A n \in nodes_of(t) :
        /\ n.data.left_subtree_length = sum_length(pieces_of(n.left))
        /\ n.data.left_subtree_lf_count = sum_newline_count(pieces_of(n.left))

smaller(a, b) == IF a < b THEN a ELSE b

RECURSIVE line_starts_after(_, _)
line_starts_after(c, i) ==
    IF i > Len(c) THEN <<>>
    ELSE (IF c[i] = LF THEN <<i>> ELSE <<>>) \o line_starts_after(c, i + 1)

\* The offsets at which the lines of c start: 0 and one past every '\n'.
line_firsts(c) == <<0>> \o line_starts_after(c, 1)

\* Offset of the first '\n' of c at or after offset o, Len(c) if none.
RECURSIVE line_end(_, _)
line_end(c, o) ==
    IF o >= Len(c) THEN Len(c)
    ELSE IF c[o + 1] = LF THEN o
    ELSE line_end(c, o + 1)

\* c from its last byte to its first.
reversed(c) == [i \in 1..Len(c) |-> c[Len(c) + 1 - i]]

\* c with t spliced in at offset o.
spliced(c, o, t) == SubSeq(c, 1, o) \o t \o SubSeq(c, o + 1, Len(c))

\* c without the n bytes from offset o.
cut(c, o, n) == SubSeq(c, 1, o) \o SubSeq(c, o + n + 1, Len(c))

\* Every root something still holds: the engine, the history, the caller.
held_roots ==
    {root} \cup heads
           \cup {undo_stack[i].root : i \in 1..Len(undo_stack)}
           \cup {redo_stack[i].root : i \in 1..Len(redo_stack)}

is_prefix(a, b) == Len(a) <= Len(b) /\ SubSeq(b, 1, Len(a)) = a

(***************************************************************************)
(* Properties.                                                             *)
(***************************************************************************)
\* C1: insert(o, t) with 0 <= o <= length() and non-empty t turns content c
\* into c[0..o) ++ t ++ c[o..) and grows length() by |t|, in each splice case.
C1_InsertSplices ==
    [][(op'.kind = "insert" /\ op'.case # "noop"
            /\ op'.offset <= meta.total_content_length)
        => /\ document(buffers', root')
                = spliced(document(buffers, root), op'.offset, op'.txt)
           /\ meta'.total_content_length
                = meta.total_content_length + Len(op'.txt)]_vars

\* C2: remove(o, n) with n > 0 and o + n <= length() turns content c into
\* c[0..o) ++ c[o+n..) and shrinks length() by n, within or across pieces.
C2_RemoveRange ==
    [][(op'.kind = "remove" /\ op'.case # "noop"
            /\ op'.offset + op'.count <= meta.total_content_length)
        => /\ document(buffers', root')
                = cut(document(buffers, root), op'.offset, op'.count)
           /\ meta'.total_content_length
                = meta.total_content_length - op'.count]_vars

\* C3: a step changes neither the bytes a held root denotes nor the bytes
\* already in a buffer.
C3_Persistence ==
    [][/\ \A r \in held_roots : document(buffers', r) = document(buffers, r)
       /\ buffers'.orig_buffers = buffers.orig_buffers
       /\ is_prefix(buffers.mod_buffer.buffer, buffers'.mod_buffer.buffer)]_vars

C3_Witness ==
    /\ op.kind = "insert"
    /\ op.case # "noop"
    /\ \E r \in held_roots \ {root} :
           \E i \in 1..Len(pieces_of(r)) : pieces_of(r)[i].index = ModBuf

C5_Augmentation == augmented(root)

C5_Witness ==
    /\ op.kind = "rb_remove"
    /\ op.count >= 5
    /\ \E n \in nodes_of(root) : n.data.left_subtree_lf_count > 0

\* C6: length() and line_feed_count() are the sums over the current pieces.
C6_MetaConsistent ==
    /\ meta.total_content_length = sum_length(pieces_of(root))
    /\ meta.lf_count = sum_newline_count(pieces_of(root))

C6_Witness ==
    /\ op.kind = "remove"
    /\ op.case # "noop"
    /\ node_count(root) >= 2
    /\ meta.lf_count > 0

\* C7: every piece's length is the distance of its cursors in its buffer and
\* its newline_count is the number of '\n' bytes in that range.
C7_PieceConsistent ==
    \A r \in held_roots :
        \A i \in 1..Len(pieces_of(r)) :
            LET piece == pieces_of(r)[i] IN
            /\ piece.length = buffer_offset(buffers, piece.index, piece.last)
                              - buffer_offset(buffers, piece.index, piece.first)
            /\ piece.newline_count = count_lf(piece_bytes(buffers, piece))

\* C8: the first insert of a run of contiguous default-mode inserts pushes the
\* root that preceded the run, the later inserts of the run push nothing, and
\* a try_undo right after the run succeeds and goes back to that root.
C8_Coalescing ==
    [][/\ default_edit(op') = "insert"
            => IF default_edit(op) = "insert"
                  /\ op'.offset = op.offset + Len(op.txt)
               THEN undo_stack' = undo_stack
               ELSE undo_stack'
                        = <<[root |-> root, op_offset |-> op'.offset]>> \o undo_stack
       /\ (op'.kind = "try_undo" /\ default_edit(op) = "insert")
            => /\ op'.success
               /\ root' = Head(undo_stack).root]_vars

\* C9: right after a default-mode edit that took effect the redo stack is
\* empty.
C9_RedoCleared ==
    default_edit(op) \in {"insert", "remove"} => redo_stack = <<>>

\* C10: a default-mode remove that took effect pushes one undo entry holding
\* the pre-remove root and the remove's offset; a try_undo right after it
\* succeeds, restores that root's content and returns the remove's offset.
C10_RemoveNeverCoalesces ==
    [][/\ default_edit(op') = "remove"
            => undo_stack'
                   = <<[root |-> root, op_offset |-> op'.offset]>> \o undo_stack
       /\ (op'.kind = "try_undo" /\ default_edit(op) = "remove")
            => /\ op'.success
               /\ op'.op_offset = op.offset
               /\ root' = Head(undo_stack).root
               /\ document(buffers', root')
                      = document(buffers, Head(undo_stack).root)]_vars

C10_Witness ==
    /\ op.kind = "try_undo"
    /\ op.prev = "remove"
    /\ op.success
    /\ op.op_offset > 0
    /\ undo_stack # <<>>

\* C11: try_undo on an empty undo stack and try_redo on an empty redo stack
\* report success == false and leave the root, the buffers, the metadata (so
\* length() and line_feed_count()), the undo stack and the redo stack as
\* they were.
C11_EmptyStackNoEffect ==
    [][/\ (op'.kind = "try_undo" /\ undo_stack = <<>>)
            => /\ ~op'.success
               /\ UNCHANGED <<root, buffers, meta, undo_stack, redo_stack>>
       /\ (op'.kind = "try_redo" /\ redo_stack = <<>>)
            => /\ ~op'.success
               /\ UNCHANGED <<root, buffers, meta, undo_stack, redo_stack>>]_vars

\* try_undo failed on an engine whose document a suppressed insert has changed.
C11_Witness ==
    /\ op.kind = "try_undo" /\ ~op.success
    /\ undo_stack = <<>>
    /\ buffers.mod_buffer.buffer # <<>>

\* C12: whenever try_undo(a) succeeds, the try_redo(b) right after it
\* succeeds, returns op_offset == a and restores the document, length() and
\* line_feed_count() of the state just before the undo (the undo saved that
\* state's root, whose metadata the engine held); a try_undo right after
\* that succeeds and returns op_offset == b.
C12_UndoRoundTrip ==
    [][/\ (op'.kind = "try_undo" /\ op'.success)
            => /\ redo_stack' # <<>>
               /\ Head(redo_stack').root = root
               /\ meta = compute_buffer_meta(root)
       /\ (op'.kind = "try_redo" /\ op.chain = 1)
            => /\ op'.success
               /\ op'.op_offset = op.offset
               /\ root' = Head(redo_stack).root
               /\ document(buffers', root') = document(buffers, Head(redo_stack).root)
               /\ meta' = compute_buffer_meta(Head(redo_stack).root)
       /\ (op'.kind = "try_undo" /\ op.chain = 2)
            => /\ op'.success
               /\ op'.op_offset = op.offset]_vars

\* An undo, its redo and one more undo, each handed a different offset.
C12_Witness ==
    /\ op.kind = "try_undo" /\ op.chain = 3
    /\ op.op_offset # op.offset
    /\ redo_stack # <<>> /\ Head(redo_stack).op_offset = op.offset

\* C13: snap_to(h), for a handle h that head() returned in an earlier state
\* S, makes the document, length() and line_feed_count() those of S, whatever
\* was called in between: head() captures a root whose metadata the engine
\* holds, no call changes the document a captured handle stands for, and
\* snap_to installs the handle with the metadata of its tree.
C13_SnapToRestores ==
    [][/\ op'.kind = "head"
            => /\ root \in heads'
               /\ meta = compute_buffer_meta(root)
       /\ \A h \in heads : document(buffers', h) = document(buffers, h)
       /\ op'.kind = "snap_to"
            => /\ root' \in heads
               /\ meta' = compute_buffer_meta(root')
               /\ meta'.total_content_length = Len(document(buffers, root'))
               /\ meta'.lf_count = count_lf(document(buffers, root'))]_vars

\* snap_to went back to the first of two captured heads, across an edit.
C13_Witness ==
    /\ op.kind = "snap_to"
    /\ Cardinality(heads) = 2
    /\ root \in heads
    /\ \E h \in heads : document(buffers, h) # document(buffers, root)

\* C14: an insert or remove with SuppressHistory::Yes applies the edit to the
\* document and leaves the undo stack and the redo stack exactly as they
\* were; a try_undo right after a suppressed edit that found the undo stack
\* empty reports success == false.
C14_SuppressedEdit ==
    [][/\ (op'.kind \in {"insert", "remove"} /\ op'.suppress)
            => /\ UNCHANGED <<undo_stack, redo_stack>>
               /\ (op'.kind = "insert" /\ op'.case # "noop")
                    => document(buffers', root')
                         = spliced(document(buffers, root), op'.offset, op'.txt)
               /\ (op'.kind = "remove" /\ op'.case # "noop")
                    => document(buffers', root')
                         = cut(document(buffers, root), op'.offset, op'.count)
       /\ (op'.kind = "try_undo" /\ undo_stack = <<>>
              /\ op.kind \in {"insert", "remove"} /\ op.suppress)
            => ~op'.success]_vars

\* A suppressed insert took effect while both stacks held entries.
C14_Witness ==
    /\ op.kind = "insert" /\ op.suppress /\ op.case # "noop"
    /\ undo_stack # <<>>
    /\ redo_stack # <<>>

\* C15: after commit_head(o) followed by any number of suppressed inserts and
\* removes, one try_undo succeeds, returns op_offset == o and restores the
\* document that commit_head saw; the try_redo right after it succeeds and
\* restores the document the last suppressed edit left.
C15_CommitHeadUndo ==
    [][/\ (op'.kind = "try_undo" /\ op.commit.phase = "open")
            => /\ op'.success
               /\ op'.op_offset = op.commit.op_offset
               /\ document(buffers', root') = op.commit.content
       /\ (op'.kind = "try_redo" /\ op.commit.phase = "undone")
            => /\ op'.success
               /\ document(buffers', root') = op.commit.content]_vars

\* commit_head, a suppressed edit, the try_undo that took both back and the
\* try_redo that brought the edit again.
C15_Witness ==
    /\ op.kind = "try_redo" /\ op.success
    /\ op.commit.phase = "redone"
    /\ undo_stack # <<>>
    /\ document(buffers, root) # document(buffers, Head(undo_stack).root)

\* C16: in every reachable state and for every start offset k <= length(), a
\* forward walker constructed at k yields exactly the bytes at(k) ..
\* at(length() - 1) of the document and nothing else, and its remaining() is
\* 0 once it is exhausted.
C16_ForwardStreaming ==
    \A k \in 0..meta.total_content_length :
        /\ ContentFrom(buffers, root, k)
             = SubSeq(document(buffers, root), k + 1, meta.total_content_length)
        /\ remaining(walk_to_end(buffers, TreeWalkerAt(buffers, root, k)),
                     meta.total_content_length) = 0

\* C17: in every reachable state a reverse walker constructed at
\* length() - 1 yields the document in reverse, at(length() - 1) down to
\* at(0), and has remaining() == 0 once exhausted; on an empty document it
\* yields no byte.
C17_ReverseStreaming ==
    /\ ReverseContentFrom(buffers, root, retract(meta.total_content_length, 1))
         = reversed(document(buffers, root))
    /\ reverse_remaining(
           reverse_walk_to_end(buffers,
               ReverseTreeWalker(buffers, root,
                                 retract(meta.total_content_length, 1)))) = 0

\* C18: remove(o, n) with n > 0 and o + n > length(), o >= length() included,
\* on content c leaves c without the bytes [o, length()) (c itself when
\* o >= length()), makes length() the smaller of o and the old length, and a
\* forward walker over the result yields no byte beyond that content.
C18_RemoveClamped ==
    [][(op'.kind = "remove" /\ op'.case # "noop"
            /\ op'.offset + op'.count > meta.total_content_length)
        => /\ document(buffers', root')
                = SubSeq(document(buffers, root), 1,
                         smaller(op'.offset, meta.total_content_length))
           /\ meta'.total_content_length
                = smaller(op'.offset, meta.total_content_length)
           /\ Content(buffers', root') = document(buffers', root')]_vars

\* C19: insert(o, t) with o > length() and non-empty t acts as
\* insert(length(), t): content c becomes c ++ t and length() grows by |t|.
C19_InsertClamped ==
    [][(op'.kind = "insert" /\ op'.case # "noop"
            /\ op'.offset > meta.total_content_length)
        => /\ document(buffers', root') = document(buffers, root) \o op'.txt
           /\ meta'.total_content_length
                = meta.total_content_length + Len(op'.txt)]_vars

\* An insert past the end of a document of several pieces.
C19_Witness ==
    /\ op.kind = "insert" /\ op.case # "noop"
    /\ op.offset > meta.total_content_length - Len(op.txt)
    /\ Len(pieces_of(root)) > 2

\* C20: insert with an empty text, remove with count == 0 and remove on an
\* empty tree leave the root, the content, length(), line_feed_count(), the
\* modification buffer, the undo stack and the redo stack unchanged.
C20_NoOpEdits ==
    [][((op'.kind = "insert" /\ op'.txt = <<>>)
          \/ (op'.kind = "remove" /\ (op'.count = 0 \/ is_empty(root))))
        => /\ UNCHANGED <<root, meta, buffers, last_insert, undo_stack, redo_stack>>
           /\ document(buffers', root') = document(buffers, root)]_vars

\* A remove of nothing, in default mode, on an engine with text in the
\* modification buffer and an entry on the undo stack.
C20_Witness ==
    /\ op.kind = "remove" /\ op.case = "noop" /\ ~op.suppress
    /\ op.count = 0
    /\ buffers.mod_buffer.buffer # <<>>
    /\ undo_stack # <<>>

\* The engine T shows the same content, length() and line_feed_count() as T0.
same_observation(T0, T) ==
    /\ document(T.buffers, T.root) = document(T0.buffers, T0.root)
    /\ T.meta.total_content_length = T0.meta.total_content_length
    /\ T.meta.lf_count = T0.meta.lf_count

\* C21: in every reachable state, for every offset o in [0, length()] and
\* every non-empty text t, insert(o, t) followed by remove(o, |t|) gives the
\* content, length() and line_feed_count() the engine had before the insert.
C21_InsertRemoveInverse ==
    \A o \in 0..meta.total_content_length : \A t \in Texts \ {<<>>} :
        same_observation(Engine,
            internal_remove(internal_insert(Engine, o, t).T, o, Len(t)).T)

\* C22: in every reachable state and for every line l in 1 .. line_count(),
\* get_line_range(l) returns first = the offset where line l starts (0, or
\* one past the (l-1)-th '\n') and last = the offset of the '\n' that ends
\* line l (length() for the last line).
C22_LineRange ==
    \A l \in 1..Len(line_firsts(document(buffers, root))) :
        get_line_range(buffers, root, l)
          = [first |-> line_firsts(document(buffers, root))[l],
             last |-> line_end(document(buffers, root),
                               line_firsts(document(buffers, root))[l])]

\* C23: in every reachable state and for every line l in 1 .. line_count(),
\* get_line_content(buf, l) delivers the bytes of the content from the start
\* of line l up to, and not including, the next '\n' or the end of the
\* document.
C23_LineContent ==
    \A l \in 1..Len(line_firsts(document(buffers, root))) :
        get_line_content(buffers, root, l)
          = SubSeq(document(buffers, root),
                   line_firsts(document(buffers, root))[l] + 1,
                   line_end(document(buffers, root),
                            line_firsts(document(buffers, root))[l]))

\* C24: in every reachable state the ranges get_line_range_with_newline(i),
\* i = 1 .. line_count(), tile the document: the first one starts at 0, each
\* one ends where the next one starts, and their lengths add up to length()
\* (the last one ends at length()).
C24_LinePartition ==
    /\ get_line_range_with_newline(buffers, root, Beginning).first = 0
    /\ \A i \in 1..(line_count(meta) - 1) :
          get_line_range_with_newline(buffers, root, i).last
            = get_line_range_with_newline(buffers, root, i + 1).first
    /\ get_line_range_with_newline(buffers, root, line_count(meta)).last
         = meta.total_content_length

\* C25: in every reachable state with a non-empty document, line_at(o) is
\* 1 + the number of '\n' in content[0..o) for every o <= length(), it is
\* line_count() for every o > length(), and line_at(get_line_range(l).first)
\* is l for every line l.
C25_LineAt ==
    meta.total_content_length > 0 =>
        /\ \A o \in 0..meta.total_content_length :
              line_at(buffers, root, o)
                = 1 + count_lf(SubSeq(document(buffers, root), 1, o))
        /\ \A o \in {meta.total_content_length + 1, meta.total_content_length + 2} :
              line_at(buffers, root, o) = line_count(meta)
        /\ \A l \in 1..Len(line_firsts(document(buffers, root))) :
              line_at(buffers, root, get_line_range(buffers, root, l).first) = l

\* C26: in every reachable state and for every line number greater than
\* line_feed_count() + 1, get_line_range returns the empty range at the end
\* of the document (first == last == length()) and get_line_content delivers
\* the empty content; the assertion of line_start is not met.
C26_LineBeyondLast ==
    \A l \in {line_count(meta) + 1, line_count(meta) + 2} \cap 0..(SizeMod - 1) :
        /\ ~line_start_asserts(root, l)
        /\ get_line_range(buffers, root, l)
             = [first |-> meta.total_content_length,
                last |-> meta.total_content_length]
        /\ get_line_content(buffers, root, l) = <<>>

\* C27: in every reachable state the line queries for line 0 complete: the
\* assertion of line_start is not met, get_line_range(0) and
\* get_line_range_with_newline(0) report an empty range (first == last), and
\* get_line_content(buf, 0) delivers the empty content.
C27_LineZero ==
    /\ ~line_start_asserts(root, IndexBeginning)
    /\ get_line_range(buffers, root, IndexBeginning).first
         = get_line_range(buffers, root, IndexBeginning).last
    /\ get_line_range_with_newline(buffers, root, IndexBeginning).first
         = get_line_range_with_newline(buffers, root, IndexBeginning).last
    /\ get_line_content(buffers, root, IndexBeginning) = <<>>

\* C28: in every reachable state whose tree is empty, line_at(o) returns
\* Line::Beginning (line 1) for every offset o.
C28_LineAtEmptyTree ==
    is_empty(root) =>
        \A o \in 0..(meta.total_content_length + 2) :
            line_at(buffers, root, o) = Beginning

slices_of(B) == [i \in 1..Len(B.orig_buffers) |-> B.orig_buffers[i].buffer]

RECURSIVE concat_slices(_)
concat_slices(ss) ==
    IF ss = <<>> THEN <<>> ELSE Head(ss) \o concat_slices(Tail(ss))

\* The buffer indices of the non-empty slices among ss[i + 1 ..], in order.
RECURSIVE non_empty_slices(_, _)
non_empty_slices(ss, i) ==
    IF i >= Len(ss) THEN <<>>
    ELSE (IF At(ss, i) = <<>> THEN <<>> ELSE <<i>>) \o non_empty_slices(ss, i + 1)

\* C30: the engine create() produces from the accepted slices s1 .. sk has
\* the content s1 ++ ... ++ sk, a tree that holds exactly one piece per
\* non-empty slice, in acceptance order, each denoting its slice, a length()
\* and a line_feed_count() that match the content, and empty undo and redo
\* stacks.
C30_Create ==
    steps = 0 =>
        /\ document(buffers, root) = concat_slices(slices_of(buffers))
        /\ [j \in 1..Len(pieces_of(root)) |-> pieces_of(root)[j].index]
             = non_empty_slices(slices_of(buffers), 0)
        /\ \A j \in 1..Len(pieces_of(root)) :
              piece_bytes(buffers, pieces_of(root)[j])
                = At(slices_of(buffers), pieces_of(root)[j].index)
        /\ meta.total_content_length = Len(concat_slices(slices_of(buffers)))
        /\ meta.lf_count = count_lf(concat_slices(slices_of(buffers)))
        /\ undo_stack = <<>>
        /\ redo_stack = <<>>

\* A fresh engine built from several slices, one of them empty.
C30_Witness ==
    /\ steps = 0
    /\ Len(buffers.orig_buffers) > 2
    /\ \E i \in 1..Len(buffers.orig_buffers) : buffers.orig_buffers[i].buffer = <<>>
    /\ Len(pieces_of(root)) > 1

\* The line starts of a buffer are exact: they begin with 0, are strictly
\* increasing, and hold i + 1 exactly for the offsets i of the '\n' bytes.
exact_line_starts(buf) ==
    /\ buf.line_starts # <<>>
    /\ buf.line_starts[1] = 0
    /\ \A i \in 1..(Len(buf.line_starts) - 1) :
          buf.line_starts[i] < buf.line_starts[i + 1]
    /\ {buf.line_starts[i] : i \in 2..Len(buf.line_starts)}
         = {i \in 1..Len(buf.buffer) : buf.buffer[i] = LF}

\* C31: the modification buffer is append-only.  Across every operation its
\* bytes before are a prefix of its bytes after; an insert of a non-empty
\* text appends exactly that text; remove, try_undo, try_redo, snap_to and
\* commit_head leave its bytes and line starts unchanged; and its line starts
\* are exact at the start and after every operation.
C31_AppendOnly ==
    /\ exact_line_starts(buffers.mod_buffer)
    /\ [][/\ is_prefix(buffers.mod_buffer.buffer, buffers'.mod_buffer.buffer)
          /\ (op'.kind = "insert" /\ op'.txt # <<>>)
                => buffers'.mod_buffer.buffer = buffers.mod_buffer.buffer \o op'.txt
          /\ op'.kind \in {"remove", "try_undo", "try_redo", "snap_to", "commit_head"}
                => buffers'.mod_buffer = buffers.mod_buffer
          /\ exact_line_starts(buffers'.mod_buffer)]_vars

\* An insert of a text with a '\n' behind bytes the modification buffer
\* already held.
C31_Witness ==
    /\ op.kind = "insert" /\ op.txt = <<LF, "y">>
    /\ Len(buffers.mod_buffer.buffer) > Len(op.txt)
    /\ Len(buffers.mod_buffer.line_starts) > 1

RECURSIVE start_offsets(_, _)
start_offsets(ps, o) ==
    IF ps = <<>> THEN <<>>
    ELSE <<o>> \o start_offsets(Tail(ps), Wrap(o + Head(ps).length))

\* ps without its i-th element.
without(ps, i) == SubSeq(ps, 1, i - 1) \o SubSeq(ps, i + 1, Len(ps))

\* C33: the removal by member rem / remove_node / remove_double_black,
\* applied to a valid red-black tree and the start offset of any of its
\* pieces, with the final root painted black, meets no assertion and yields
\* a valid red-black tree (equal black height on all paths, no red node with
\* a red child, no DoubleBlack node) with correct augmentations and the
\* original pieces, in order, without the removed one.
C33_DoubleBlackRemoval ==
    (valid_red_black(root) /\ augmented(root)) =>
        \A i \in 1..Len(pieces_of(root)) :
            /\ member_rem(root, start_offsets(pieces_of(root), 0)[i], 0).color # "Aborted"
            /\ valid_red_black(remove_with_double_black(root,
                                   start_offsets(pieces_of(root), 0)[i]))
            /\ augmented(remove_with_double_black(root,
                             start_offsets(pieces_of(root), 0)[i]))
            /\ pieces_of(remove_with_double_black(root,
                             start_offsets(pieces_of(root), 0)[i]))
                 = without(pieces_of(root), i)

\* The trees t is turned into by painting one of its nodes the other colour.
RECURSIVE repainted(_)
repainted(t) ==
    IF is_empty(t) THEN {}
    ELSE {[t EXCEPT !.color = IF t.color = "Red" THEN "Black" ELSE "Red"]}
         \cup {[t EXCEPT !.left = l] : l \in repainted(t.left)}
         \cup {[t EXCEPT !.right = r] : r \in repainted(t.right)}

\* C34: satisfies_rb_invariants fails its assertion for every tree that has a
\* red node with a red child or two paths from the root to an empty tree with
\* different numbers of black nodes, and passes for every valid red-black
\* tree; the trees are the current root and the root with one node
\* repainted.
C34_VerificationDetects ==
    \A t \in {root} \cup repainted(root) :
        /\ (~no_red_red(t) \/ black_height(t) < 0) => satisfies_rb_invariants_asserts(t)
        /\ valid_red_black(t) => ~satisfies_rb_invariants_asserts(t)

\* The colours of the nodes of t, in order.
RECURSIVE colours_of(_)
colours_of(t) ==
    IF is_empty(t) THEN <<>>
    ELSE colours_of(t.left) \o <<t.color>> \o colours_of(t.right)

\* result is what a removal at offset at is to leave of a tree with the pieces
\* ps, which start at the offsets starts, and the colours colours.
removed_by_offset(ps, starts, colours, at, result) ==
    /\ \A i \in 1..Len(ps) :
          starts[i] = at => pieces_of(result) = without(ps, i)
    /\ (\A i \in 1..Len(ps) : starts[i] # at)
         => /\ pieces_of(result) = ps
            /\ colours_of(result) = colours

\* C35: RedBlackTree::remove(at) on a valid tree of non-empty pieces.  If the
\* i-th piece starts at offset at, the pieces of the result are the original
\* ones, in order, without the i-th; if no piece starts at at, the pieces and
\* the colour of every node are unchanged.
C35_RemoveByOffset ==
    \A at \in 0..(tree_length(root) + 1) :
        removed_by_offset(pieces_of(root), start_offsets(pieces_of(root), 0),
                          colours_of(root), at, rb_remove(root, at))

\* A removal has just taken a node out of a tree of five; the tree left has a
\* piece of two bytes, so that some offsets start a piece and some do not.
C35_Witness ==
    /\ op.kind = "rb_remove"
    /\ op.count = 5 /\ node_count(root) = 4
    /\ \E i \in 1..Len(pieces_of(root)) : pieces_of(root)[i].length = 2

\* result is the position of offset off in a tree with the pieces ps, which
\* start at the offsets starts and hold total bytes: the piece that covers
\* off, or the last piece, at its end, for off == total.
position_of(ps, starts, total, off, result) ==
    /\ result.node # NullNode
    /\ IF off < total
       THEN \E i \in 1..Len(ps) :
                /\ starts[i] <= off /\ off < starts[i] + ps[i].length
                /\ result.node.data.piece = ps[i]
                /\ result.start_offset = starts[i]
                /\ result.remainder = off - starts[i]
                /\ result.remainder < ps[i].length
       ELSE /\ result.node.data.piece = ps[Len(ps)]
            /\ result.remainder = ps[Len(ps)].length
            /\ result.start_offset = total - ps[Len(ps)].length

\* C36: in every reachable state with a non-empty tree and correct
\* augmentations, node_at(off) returns, for every off < total length, the
\* node whose piece covers off, with start_offset <= off < start_offset +
\* piece.length and remainder == off - start_offset, and for off == total
\* length the last node in order, with remainder == piece.length and
\* start_offset == total length - piece.length.
C36_NodeAt ==
    (~is_empty(root) /\ augmented(root)) =>
        \A off \in 0..tree_length(root) :
            position_of(pieces_of(root), start_offsets(pieces_of(root), 0),
                        tree_length(root), off, node_at(buffers, root, off))

\* An edit has left a tree of at least three pieces.
C36_Witness ==
    /\ op.kind \in {"insert", "remove"} /\ op.case # "noop"
    /\ Len(pieces_of(root)) >= 3
    /\ augmented(root)

\* The walker W has yielded n of the total bytes of c: from here on it is
\* exhausted exactly when n == total, and until then next() yields the next
\* byte of c.
RECURSIVE exhausted_exactly(_, _, _, _, _)
exhausted_exactly(B, W, n, total, c) ==
    IF n >= total THEN exhausted(W)
    ELSE /\ ~exhausted(W)
         /\ next(B, W).c = c[n + 1]
         /\ exhausted_exactly(B, next(B, W).W, n + 1, total, c)

\* C37: in every reachable state a forward walker constructed at offset 0 is
\* not exhausted while it has yielded fewer than length() bytes and is
\* exhausted once it has yielded length() bytes (at once on a document of
\* length 0), so that the loop "while not exhausted: next()" never receives
\* the filler byte 0.
C37_ExhaustedExact ==
    /\ meta.total_content_length = Len(document(buffers, root))
    /\ exhausted_exactly(buffers, TreeWalkerAt(buffers, root, 0), 0,
                         meta.total_content_length, document(buffers, root))

\* C38: no stored tree contains a zero-length piece.  After construction and
\* after any sequence of insert and remove calls, with any offsets and counts,
\* every piece of the current tree has length > 0, and the root is empty
\* exactly when length() is 0.
C38_NoZeroLengthPiece ==
    /\ \A i \in 1..Len(pieces_of(root)) : pieces_of(root)[i].length > 0
    /\ is_empty(root) <=> meta.total_content_length = 0

\* The call o changed the engine: an edit that took effect, an undo or redo
\* that succeeded, a snap_to or a commit_head.
took_effect(o) ==
    \/ o.kind \in {"insert", "remove"} /\ o.case # "noop"
    \/ o.kind \in {"try_undo", "try_redo"} /\ o.success
    \/ o.kind \in {"snap_to", "commit_head"}

\* C39: coalescing only joins consecutive typing.  A default-mode insert that
\* pushes no undo entry and leaves the redo stack alone comes right after an
\* insert that ended at its offset; a default-mode insert that comes right
\* after a remove, try_undo, try_redo, snap_to or commit_head pushes the
\* pre-insert root onto the undo stack.
C39_CoalescingNeedsInsert ==
    [][(default_edit(op') = "insert" /\ took_effect(op))
          => /\ (undo_stack' = undo_stack /\ redo_stack' = redo_stack)
                  => /\ op.kind = "insert"
                     /\ extend(op.offset, Len(op.txt)) = op'.offset
             /\ op.kind # "insert"
                  => undo_stack'
                        = <<[root |-> root, op_offset |-> op'.offset]>> \o undo_stack]_vars

\* The pieces of ps, the first of which starts at offset o, that start before
\* offset off.
RECURSIVE pieces_before(_, _, _)
pieces_before(ps, o, off) ==
    IF ps = <<>> \/ o >= off THEN <<>>
    ELSE <<Head(ps)>> \o pieces_before(Tail(ps), o + Head(ps).length, off)

\* run is the loop of remove_node_range started at first in the tree root_:
\* it ended, it ended with what remove_node_range returns, and every root it
\* went through holds the pieces of root_ that start before first.start_offset.
range_removal_ends(B, root_, first, count, run) ==
    /\ run.ended
    /\ run.roots[Len(run.roots)] = remove_node_range(B, root_, first, count)
    /\ \A i \in 1..Len(run.roots) :
          pieces_before(pieces_of(run.roots[i]), 0, first.start_offset)
              = pieces_before(pieces_of(root_), 0, first.start_offset)

\* C40: a remove that spans several nodes ends.  The loop of remove_node_range
\* makes at most as many iterations as the tree has nodes plus the length it
\* counts up to, also when the range runs past the end of the document while
\* pieces remain before first.start_offset, and no iteration removes a piece
\* that starts before first.start_offset.
C40_RemoveRangeTerminates ==
    [][(op'.kind = "remove" /\ op'.case = "multi")
          => range_removal_ends(buffers, root,
                 node_at(buffers, root, op'.offset), op'.count,
                 remove_node_range_run(buffers, root,
                     node_at(buffers, root, op'.offset), 0,
                     adjusted_length(node_at(buffers, root, op'.offset), op'.count),
                     node_at(buffers, root, op'.offset).start_offset,
                     node_count(root)
                       + adjusted_length(node_at(buffers, root, op'.offset),
                                         op'.count)))]_vars

\* A remove that spans several nodes has just run past the end of the
\* document it found, and has left the pieces in front of its offset.
C40_Witness ==
    /\ op.kind = "remove" /\ op.case = "multi"
    /\ undo_stack # <<>>
    /\ op.offset > 0
    /\ op.offset + op.count > tree_length(Head(undo_stack).root)
    /\ node_count(Head(undo_stack).root) >= 3
    /\ ~is_empty(root)

====
